---- MODULE Spec2Model ----
(***************************************************************************)
(* rljson/io: the in-memory storage engine (IoMem with IoTools) and the    *)
(* cascading aggregator (IoMulti) over several engines.                    *)
(*                                                                         *)
(* Every handler of the code is an operator from the state it reads and    *)
(* its request to a record [ok, err, ...] holding the state it leaves and  *)
(* what it returns; the actions apply these operators.                     *)
(***************************************************************************)
EXTENDS Integers, Sequences, FiniteSets, TLC

VARIABLES
  mem,       \* IoMem._mem of the single engine of Spec: table key -> table
  last,      \* the last call made and whether it returned: [op, ok]
  ios,       \* IoMulti._ios: child -> [priority, read, write, dump]
  mems,      \* the _mem of the engine of each child: child -> _mem
  ioOpen,    \* the isOpen field of each child: child -> BOOLEAN
  isOpen,    \* IoMulti.isOpen
  call,      \* the IoMulti.write call whose child writes are in flight
  writes,    \* the IoMem.write calls on the engine: call -> [data, pc]
  socket,    \* the Socket: [connected, listeners], listeners as on() added them
  peerIsOpen, \* IoPeer.isOpen
  bridge     \* IoPeerBridge._eventHandlers: event -> handler

vars == <<mem, last, ios, mems, ioOpen, isOpen, call, writes, socket, peerIsOpen, bridge>>

----------------------------------------------------------------------------
(* Bounds of the model *)

\* longest _data of a data table that an action may produce
MaxRows == 2
\* most columns of a table config given to createOrExtendTable
MaxCols == 2
\* most rows of one table in one write request
MaxBatch == 2

----------------------------------------------------------------------------
(* JSON values, rows and hashes *)

\* a column a row does not have (row[column] === undefined)
Undefined == "undefined"
\* the JSON value null
Null == "null"

\* the column keys of the data tables
ColumnKeys == {"a", "b"}

\* jsonValueType of the values of the model
JsonValueType(v) ==
  CASE v = "s1" -> "string"
    [] v = "n1" -> "number"
    [] v = Null -> "null"
    [] OTHER -> "undefined"

\* the value types throwOnInvalidTableCfg accepts
jsonValueTypes == {"string", "number", "boolean", "json", "jsonArray"}

\* the position of a value in the canonical order the hash is built on
ValueOrder == <<Undefined, Null, "s1", "n1">>

ValueCode(v) == CHOOSE i \in 1..Len(ValueOrder) : ValueOrder[i] = v

\* hsh of a table config: the canonical form of its content without _hash
CfgHash(cfg) ==
  <<cfg.key, cfg.type,
    [i \in 1..Len(cfg.columns) |-> <<cfg.columns[i].key, cfg.columns[i].type>>]>>

\* hsh of a row: a number computed from the columns of the row other than
\* _hash (content addressing: equal content, equal hash); a row of the
\* table tableCfgs is a table config and hashed as one
RowHash(row) ==
  IF "columns" \in DOMAIN row THEN CfgHash(row)
  ELSE ValueCode(row.a) * (Len(ValueOrder) + 1) + ValueCode(row.b)

\* hsh(row): the row with its _hash set from its content
HshRow(row) ==
  IF "columns" \in DOMAIN row
  THEN [key |-> row.key, type |-> row.type, columns |-> row.columns,
        _hash |-> RowHash(row)]
  ELSE [a |-> row.a, b |-> row.b, _hash |-> RowHash(row)]

\* hsh(tableCfg): the config with its _hash set from its content
HshCfg(cfg) ==
  [key |-> cfg.key, type |-> cfg.type, columns |-> cfg.columns,
   _hash |-> CfgHash(cfg)]

\* hsh(json) throws: json declares a _hash that is not the hash computed
\* from its content ('Hash "wrongHash" does not match the newly calculated
\* one'); a json without _hash gets one
WrongCfgHash(cfg) == "_hash" \in DOMAIN cfg /\ cfg._hash # CfgHash(cfg)

WrongRowHashes(rows) ==
  {i \in 1..Len(rows) :
     "_hash" \in DOMAIN rows[i] /\ rows[i]._hash # RowHash(rows[i])}

\* _updateTableHash: the hash of a table over the hashes of its rows and
\* its config reference
TableHash(data, tableCfgRef) ==
  <<[i \in 1..Len(data) |-> data[i]._hash], tableCfgRef>>

\* hip(table) as _createTable, _extendTable and _write leave a table
HipTable(data, tableCfgRef) ==
  [_data |-> data, _tableCfg |-> tableCfgRef,
   _hash |-> TableHash(data, tableCfgRef)]

Col(k, t) == [key |-> k, type |-> t]

\* IoTools.tableCfgsTableCfg
tableCfgsTableCfg ==
  HshCfg([key |-> "tableCfgs", type |-> "ingredients",
          columns |-> <<Col("_hash", "string"), Col("key", "string"),
                        Col("type", "string"), Col("isHead", "boolean"),
                        Col("isRoot", "boolean"), Col("isShared", "boolean"),
                        Col("previous", "string"), Col("columns", "jsonArray")>>])

\* the config IoTools.initRevisionsTable registers
revisionsTableCfg ==
  [key |-> "revisions", type |-> "ingredients",
   columns |-> <<Col("_hash", "string"), Col("table", "string"),
                 Col("predecessor", "string"), Col("successor", "string"),
                 Col("timestamp", "number"), Col("id", "string")>>]

\* no config (null)
NoCfg == [none |-> TRUE]

\* _mem of a constructed IoMem before init: hip({})
EmptyMem == [k \in {} |-> NoCfg]

\* m with table key k set to table t
SetTable(m, k, t) ==
  [x \in (DOMAIN m) \cup {k} |-> IF x = k THEN t ELSE m[x]]

----------------------------------------------------------------------------
(* IoTools *)

NoError == "ok"

\* Io.tableExists as IoMem implements it
tableExists(m, tableKey) == tableKey \in DOMAIN m

\* the loop of IoTools.tableCfgs for one key: from the last logged config
\* to the first, keep the config with the most columns
RECURSIVE NewestVersion(_, _, _, _)
NewestVersion(tables, i, key, existing) ==
  IF i = 0 THEN existing
  ELSE LET table == tables[i]
           take == /\ table.key = key
                   /\ \/ existing = NoCfg
                      \/ Len(existing.columns) < Len(table.columns)
       IN NewestVersion(tables, i - 1, key, IF take THEN table ELSE existing)

\* IoTools.tableCfgOrNull: the current config of a table key, or NoCfg
tableCfgOrNull(m, table) ==
  NewestVersion(m["tableCfgs"]._data, Len(m["tableCfgs"]._data), table, NoCfg)

\* throwOnInvalidTableCfg: a column of an unsupported type
throwOnInvalidTableCfg(update) ==
  IF \E i \in 1..Len(update.columns) : update.columns[i].type \notin jsonValueTypes
  THEN "UnsupportedType"
  ELSE NoError

FirstIndex(S) == CHOOSE i \in S : \A j \in S : i <= j

\* the keys of the existing columns that no column of the update has
DeletedColumnKeys(existing, update) ==
  {existing.columns[i].key : i \in 1..Len(existing.columns)}
    \ {update.columns[i].key : i \in 1..Len(update.columns)}

\* the compatibility checks without the one for renamed columns
CompatibleExceptRenamed(m, update) ==
  LET invalid == throwOnInvalidTableCfg(update)
      existing == tableCfgOrNull(m, update.key)
      e == existing.columns
      u == update.columns
      typeDiff == {i \in 1..Len(e) : i <= Len(u) /\ e[i].type # u[i].type}
  IN IF invalid # NoError THEN invalid
     ELSE IF existing = NoCfg THEN NoError
     ELSE IF Len(e) > Len(u) /\ DeletedColumnKeys(existing, update) # {}
       THEN "ColumnDeleted"
     ELSE IF typeDiff # {} THEN "ColumnTypeChanged"
     ELSE NoError

\* the compatibility checks with the one for deleted columns made whatever
\* the number of columns of the update
DeletedWhateverTheLength(m, update) ==
  LET invalid == throwOnInvalidTableCfg(update)
      existing == tableCfgOrNull(m, update.key)
      e == existing.columns
      u == update.columns
      keyDiff == {i \in 1..Len(e) : i > Len(u) \/ e[i].key # u[i].key}
      typeDiff == {i \in 1..Len(e) : e[i].type # u[i].type}
  IN IF invalid # NoError THEN invalid
     ELSE IF existing = NoCfg THEN NoError
     ELSE IF DeletedColumnKeys(existing, update) # {} THEN "ColumnDeleted"
     ELSE IF keyDiff # {}
       THEN (IF FirstIndex(keyDiff) > Len(u) THEN "TypeError" ELSE "ColumnRenamed")
     ELSE IF typeDiff # {} THEN "ColumnTypeChanged"
     ELSE NoError

\* IoTools.throwWhenTableIsNotCompatible: NoError, or the error it throws.
\* The loops over the existing columns read update.columns[i] also when the
\* update is shorter: reading .key of undefined is a TypeError.
throwWhenTableIsNotCompatible(m, update) ==
  LET invalid == throwOnInvalidTableCfg(update)
      existing == tableCfgOrNull(m, update.key)
      e == existing.columns
      u == update.columns
      keyDiff == {i \in 1..Len(e) : i > Len(u) \/ e[i].key # u[i].key}
      typeDiff == {i \in 1..Len(e) : e[i].type # u[i].type}
  IN IF invalid # NoError THEN invalid
     ELSE IF existing = NoCfg THEN NoError
     ELSE IF Len(e) > Len(u) /\ DeletedColumnKeys(existing, update) # {}
       THEN "ColumnDeleted"
     ELSE IF keyDiff # {}
       THEN (IF FirstIndex(keyDiff) > Len(u) THEN "TypeError" ELSE "ColumnRenamed")
     ELSE IF typeDiff # {} THEN "ColumnTypeChanged"
     ELSE NoError

\* the type of the first column of the config with the given key
ColumnType(cfg, k) ==
  cfg.columns[FirstIndex({i \in 1..Len(cfg.columns) : cfg.columns[i].key = k})].type

ColumnKeysOf(cfg) == {cfg.columns[i].key : i \in 1..Len(cfg.columns)}

RowValue(row, column) ==
  CASE column = "a" -> row.a
    [] column = "b" -> row.b
    [] OTHER -> Undefined

\* validateRljsonAgainstTableCfg: the <<row index, column>> pairs in error:
\* a column the config does not have, or a value of another type
validateRljsonAgainstTableCfg(data, cfg) ==
  {<<i, k>> \in (1..Len(data)) \X ColumnKeys :
     /\ "columns" \notin DOMAIN data[i]
     /\ RowValue(data[i], k) # Undefined
     /\ \/ k \notin ColumnKeysOf(cfg)
        \/ /\ RowValue(data[i], k) # Null
           /\ JsonValueType(RowValue(data[i], k)) # ColumnType(cfg, k)}
    \cup
  \* a row that is a table config: key and type are strings, columns is an
  \* array
  {<<i, k>> \in (1..Len(data)) \X {"key", "type", "columns"} :
     /\ "columns" \in DOMAIN data[i]
     /\ \/ k \notin ColumnKeysOf(cfg)
        \/ (IF k = "columns" THEN "jsonArray" ELSE "string") # ColumnType(cfg, k)}

\* IoTools.throwWhenTablesDoNotExist: the table keys of the data that miss
MissingTables(m, data) == {t \in DOMAIN data : ~tableExists(m, t)}

\* IoTools.throwWhenTableDataDoesNotMatchCfg: the tables of the data with a
\* row in error (tableCfg throws for a table without config)
TablesInError(m, data) ==
  {t \in DOMAIN data :
     \/ tableCfgOrNull(m, t) = NoCfg
     \/ validateRljsonAgainstTableCfg(data[t], tableCfgOrNull(m, t)) # {}}

----------------------------------------------------------------------------
(* IoMem *)

\* _init has run: this._ioTools is set and the tableCfgs table exists
Initialized(m) == "tableCfgs" \in DOMAIN m

\* a call on an engine that was not initialized reads this._ioTools of
\* undefined: it throws a TypeError and changes nothing
Fail(e, m) == [ok |-> FALSE, err |-> e, mem |-> m]

Done(m) == [ok |-> TRUE, err |-> NoError, mem |-> m]

\* the tableCfgs table with one more config, its hash updated
PushTableCfg(m, newConfig) ==
  SetTable(m, "tableCfgs",
           HipTable(Append(m["tableCfgs"]._data, newConfig),
                    m["tableCfgs"]._tableCfg))

\* _createTable that does not log the config the new table refers to
CreateTableUnlogged(m, newConfig, tableKey) ==
  LET table == IF tableKey \in DOMAIN m
               THEN m[tableKey]
               ELSE HipTable(<<>>, newConfig._hash)
  IN SetTable(m, tableKey, HipTable(table._data, table._tableCfg))

\* IoMem._createTable
_createTable(m, newConfig, tableKey) ==
  LET m1 == PushTableCfg(m, newConfig)
      table == IF tableKey \in DOMAIN m1
               THEN m1[tableKey]
               ELSE HipTable(<<>>, newConfig._hash)
  IN SetTable(m1, tableKey, HipTable(table._data, table._tableCfg))

\* _extendTable that logs the new config whatever its number of columns
ExtendAlways(m, existingConfig, newConfig) ==
  LET m1 == PushTableCfg(m, newConfig)
  IN SetTable(m1, newConfig.key,
              HipTable(m1[newConfig.key]._data, newConfig._hash))

\* _extendTable that logs the new config and leaves the table's reference
ExtendWithoutRepoint(m, existingConfig, newConfig) ==
  IF Len(existingConfig.columns) = Len(newConfig.columns)
  THEN m
  ELSE PushTableCfg(m, newConfig)

\* IoMem._extendTable
_extendTable(m, existingConfig, newConfig) ==
  IF Len(existingConfig.columns) = Len(newConfig.columns)
  THEN m
  ELSE LET m1 == PushTableCfg(m, newConfig)
       IN SetTable(m1, newConfig.key,
                   HipTable(m1[newConfig.key]._data, newConfig._hash))

\* createOrExtendTable that logs the config before it checks it
CreateOrExtendLogFirst(m, tableCfg) ==
  LET err == throwWhenTableIsNotCompatible(m, tableCfg)
      newConfig == HshCfg(tableCfg)
      existingConfig == tableCfgOrNull(m, tableCfg.key)
  IN IF ~Initialized(m) THEN Fail("TypeError", m)
     ELSE IF err # NoError THEN Fail(err, PushTableCfg(m, newConfig))
     ELSE IF existingConfig = NoCfg
       THEN Done(_createTable(m, newConfig, tableCfg.key))
     ELSE Done(_extendTable(m, existingConfig, newConfig))

\* createOrExtendTable that recreates the hash of a config whose declared
\* hash is wrong
CreateOrExtendRecreatesHash(m, tableCfg) ==
  LET err == throwWhenTableIsNotCompatible(m, tableCfg)
      newConfig == HshCfg(tableCfg)
      existingConfig == tableCfgOrNull(m, tableCfg.key)
  IN IF ~Initialized(m) THEN Fail("TypeError", m)
     ELSE IF err # NoError THEN Fail(err, m)
     ELSE IF existingConfig = NoCfg
       THEN Done(_createTable(m, newConfig, tableCfg.key))
     ELSE Done(_extendTable(m, existingConfig, newConfig))

\* IoMem._createOrExtendTable
_createOrExtendTable(m, tableCfg) ==
  LET err == throwWhenTableIsNotCompatible(m, tableCfg)
      newConfig == HshCfg(tableCfg)
      existingConfig == tableCfgOrNull(m, tableCfg.key)
  IN IF ~Initialized(m) THEN Fail("TypeError", m)
     ELSE IF err # NoError THEN Fail(err, m)
     ELSE IF WrongCfgHash(tableCfg) THEN Fail("HashMismatch", m)
     ELSE IF existingConfig = NoCfg
       THEN Done(_createTable(m, newConfig, tableCfg.key))
     ELSE Done(_extendTable(m, existingConfig, newConfig))

\* IoMem._init: _initTableCfgs, then IoTools.initRevisionsTable
_init(m) ==
  LET m1 == SetTable(m, "tableCfgs",
                     HipTable(<<tableCfgsTableCfg>>, tableCfgsTableCfg._hash))
  IN _createOrExtendTable(m1, revisionsTableCfg).mem

\* IoMem._removeNullValues on one row: a null column is deleted
removeNullValues(row) ==
  IF "columns" \in DOMAIN row THEN row
  ELSE [row EXCEPT !.a = IF @ = Null THEN Undefined ELSE @,
                   !.b = IF @ = Null THEN Undefined ELSE @]

\* const addedData = hsh(request.data); this._removeNullValues(addedData):
\* the rows of one table of the request, hashed, then without their nulls.
\* (The hsh(addedData) that follows returns a copy that is dropped.)
AddedData(rows) ==
  [i \in 1..Len(rows) |-> removeNullValues(HshRow(rows[i]))]

\* the merge loop of _write that pushes every item
RECURSIVE MergeAll(_, _)
MergeAll(oldData, newData) ==
  IF newData = <<>> THEN oldData
  ELSE MergeAll(Append(oldData, Head(newData)), Tail(newData))

\* the merge loop of _write that compares every item with the rows the
\* table had before the request only
MergeAgainstOld(oldData, newData) ==
  LET IsNew(item) ==
        ~\E i \in 1..Len(oldData) : oldData[i]._hash = item._hash
  IN oldData \o SelectSeq(newData, IsNew)

\* the merge loop of _write: an item is pushed unless a row of the table
\* has its hash
RECURSIVE MergeData(_, _)
MergeData(oldData, newData) ==
  IF newData = <<>> THEN oldData
  ELSE LET item == Head(newData)
           exists == \E i \in 1..Len(oldData) : oldData[i]._hash = item._hash
       IN MergeData(IF exists THEN oldData ELSE Append(oldData, item),
                    Tail(newData))

\* the tables of m with the rows of the request in place of their own
ReplacedMem(m, data) ==
  [k \in DOMAIN m |->
     IF k \in DOMAIN data
     THEN HipTable(MergeData(<<>>, AddedData(data[k])), m[k]._tableCfg)
     ELSE m[k]]

\* the tables of m with the data of the request merged in, hashes updated
MergedMem(m, data) ==
  [k \in DOMAIN m |->
     IF k \in DOMAIN data
     THEN HipTable(MergeData(m[k]._data, AddedData(data[k])), m[k]._tableCfg)
     ELSE m[k]]

\* _write that merges table by table and stops at the first table in error
WriteTableByTable(m, data) ==
  LET missing == MissingTables(m, data)
      inError == TablesInError(m, data)
      valid == [t \in (DOMAIN data) \ (missing \cup inError) |-> data[t]]
  IN IF ~Initialized(m) THEN Fail("TypeError", m)
     ELSE IF missing # {} THEN Fail("TablesDoNotExist", MergedMem(m, valid))
     ELSE IF inError # {} THEN Fail("DataDoesNotMatchCfg", MergedMem(m, valid))
     ELSE Done(MergedMem(m, data))

\* IoMem._write. data: table key -> the rows of the request for the table
_write(m, data) ==
  IF \E t \in DOMAIN data : WrongRowHashes(data[t]) # {}
  THEN Fail("HashMismatch", m)
  ELSE IF ~Initialized(m) THEN Fail("TypeError", m)
  ELSE IF MissingTables(m, data) # {} THEN Fail("TablesDoNotExist", m)
  ELSE IF TablesInError(m, data) # {} THEN Fail("DataDoesNotMatchCfg", m)
  ELSE Done(MergedMem(m, data))

\* equals(a, b) of @rljson/json on the scalar values of the model
equals(a, b) == a = b

\* the filter of _readRows on one row, from the i-th entry of where on.
\* where is the sequence of the <<column, expected value>> entries of the
\* request, in the order for..in visits them
RECURSIVE RowPasses(_, _, _)
RowPasses(row, where, i) ==
  IF i > Len(where) THEN TRUE
  ELSE LET a == RowValue(row, where[i][1])
           b == where[i][2]
       IN IF b = Null /\ a = Undefined THEN TRUE
          ELSE IF ~equals(a, b) THEN FALSE
          ELSE RowPasses(row, where, i + 1)

RECURSIVE FilterRows(_, _)
FilterRows(data, where) ==
  IF data = <<>> THEN <<>>
  ELSE IF RowPasses(Head(data), where, 1)
    THEN <<Head(data)>> \o FilterRows(Tail(data), where)
    ELSE FilterRows(Tail(data), where)

\* IoTools.throwWhenColumnDoesNotExist: the where columns the table lacks
MissingColumns(m, table, where) ==
  {where[i][1] : i \in 1..Len(where)} \ ColumnKeysOf(tableCfgOrNull(m, table))

\* readRows that throws when no row of the table matches
ReadRowsThrowsWhenEmpty(m, table, where) ==
  IF ~Initialized(m) THEN [ok |-> FALSE, err |-> "TypeError", rows |-> <<>>]
  ELSE IF ~tableExists(m, table) \/ tableCfgOrNull(m, table) = NoCfg
    THEN [ok |-> FALSE, err |-> "TableNotFound", rows |-> <<>>]
  ELSE IF MissingColumns(m, table, where) # {}
    THEN [ok |-> FALSE, err |-> "ColumnsDoNotExist", rows |-> <<>>]
  ELSE IF FilterRows(m[table]._data, where) = <<>>
    THEN [ok |-> FALSE, err |-> "RowNotFound", rows |-> <<>>]
  ELSE [ok |-> TRUE, err |-> NoError, rows |-> FilterRows(m[table]._data, where)]

\* IoMem._readRows: [ok, err, rows]
_readRows(m, table, where) ==
  IF ~Initialized(m) THEN [ok |-> FALSE, err |-> "TypeError", rows |-> <<>>]
  ELSE IF ~tableExists(m, table) \/ tableCfgOrNull(m, table) = NoCfg
    THEN [ok |-> FALSE, err |-> "TableNotFound", rows |-> <<>>]
  ELSE IF MissingColumns(m, table, where) # {}
    THEN [ok |-> FALSE, err |-> "ColumnsDoNotExist", rows |-> <<>>]
  ELSE [ok |-> TRUE, err |-> NoError, rows |-> FilterRows(m[table]._data, where)]

\* IoMem.rowCount of an existing table
rowCount(m, table) == Len(m[table]._data)

----------------------------------------------------------------------------
(* The requests the model makes *)

\* the column definitions of the table configs given for table "t"
ColumnCfgs == {Col("a", "string"), Col("b", "number"), Col("a", "number")}

\* the lists of at most MaxCols column definitions with distinct keys
ColumnLists ==
  {columns \in UNION {[1..n -> ColumnCfgs] : n \in 0..MaxCols} :
     \A i, j \in DOMAIN columns : columns[i].key = columns[j].key => i = j}

TableCfgOf(k, columns) == [key |-> k, type |-> "components", columns |-> columns]

\* the table configs given to createOrExtendTable: for table "t" every list
\* of column definitions and one with a type that is no JSON value type,
\* for table "u" one config
CfgInputs ==
  {TableCfgOf("t", columns) : columns \in ColumnLists}
    \cup {TableCfgOf("t", <<Col("a", "string"), Col("b", "unknown")>>),
          TableCfgOf("u", <<Col("a", "string")>>)}

\* json with the declared hash h
WithHash(json, h) ==
  [k \in (DOMAIN json) \cup {"_hash"} |-> IF k = "_hash" THEN h ELSE json[k]]

\* table configs that declare their hash: the right one, or a wrong one
DeclaredCfgInputs ==
  {WithHash(cfg, h) :
     cfg \in {TableCfgOf("t", <<Col("a", "string")>>),
              TableCfgOf("t", <<Col("a", "string"), Col("b", "number")>>)},
     h \in {<<"wrongHash">>}}
    \cup {WithHash(TableCfgOf("t", <<Col("a", "string")>>),
                   CfgHash(TableCfgOf("t", <<Col("a", "string")>>)))}

Row(a, b) == [a |-> a, b |-> b]

\* the rows written to table "t": the fourth has a number in column a
WriteRows ==
  {Row("s1", Undefined), Row(Undefined, "n1"), Row("s1", "n1"), Row("n1", Undefined)}

\* the rows written to table "u" (which has column a alone)
WriteRowsU == {Row("s1", Undefined), Row(Undefined, "n1")}

RowSeqs(S, n) == UNION {[1..k -> S] : k \in 0..n}

\* the data of the write requests: rows for table "t", a row for table
\* "u", or a row for each
WriteInputs ==
  {[k \in {"t"} |-> rows] : rows \in RowSeqs(WriteRows, MaxBatch)}
    \cup {[k \in {"u"} |-> <<r>>] : r \in WriteRowsU}
    \cup {[k \in {"t", "u"} |-> IF k = "t" THEN <<rt>> ELSE <<ru>>] :
            rt \in WriteRows, ru \in WriteRowsU}

\* the where clauses of the read requests: no entry, one entry, or one
\* entry for each of the columns a and b in either order; and one on a
\* column no table has
WhereEntries ==
  {<<"a", Null>>, <<"a", "s1">>, <<"b", Null>>, <<"b", "n1">>, <<"b", "n2">>}

WhereInputs ==
  {<<>>, <<<<"c", "s1">>>>}
    \cup {<<e>> : e \in WhereEntries}
    \cup {<<p[1], p[2]>> : p \in {q \in WhereEntries \X WhereEntries : q[1][1] # q[2][1]}}

\* write requests whose rows declare their hash: one row with the right
\* hash or with a wrong one, and a row without hash followed by a row with
\* a wrong one
DeclaredWriteInputs ==
  {[k \in {"t"} |-> <<WithHash(row, RowHash(row) + d)>>] :
     row \in {Row("s1", Undefined)}, d \in {0, 1}}
    \cup {[k \in {"t"} |->
            <<Row("s1", Undefined),
              WithHash(Row(Undefined, "n1"), RowHash(Row(Undefined, "n1")) + 1)>>]}

TableKeys == {"t", "u"}

\* the read requests: every where clause on table "t", two on table "u"
ReadInputs ==
  {<<"t", where>> : where \in WhereInputs}
    \cup {<<"u", where>> : where \in {<<>>, <<<<"a", "s1">>>>}}

----------------------------------------------------------------------------
(* Spec: one storage engine *)

Called(op, ok) == [op |-> op, ok |-> ok]

\* call when no IoMulti.write has child writes in flight
NoCall == [data |-> <<>>, pending |-> {}, err |-> NoError, returned |-> TRUE]

\* writes when no IoMem.write is running
NoWrites == <<>>

\* new PeerSocketMock(io), no IoPeer opened and no bridge started
NoPeer ==
  /\ socket = [connected |-> FALSE, listeners |-> <<>>]
  /\ peerIsOpen = FALSE
  /\ bridge = <<>>

\* the aggregator is not part of Spec
NoMulti ==
  /\ ios = <<>>
  /\ mems = <<>>
  /\ ioOpen = <<>>
  /\ isOpen = FALSE

Init ==
  /\ mem = EmptyMem
  /\ last = Called("new", TRUE)
  /\ NoMulti
  /\ call = NoCall
  /\ writes = NoWrites
  /\ NoPeer

\* no table of m holds more than MaxRows rows
WithinMaxRows(m) ==
  \A k \in (DOMAIN m) \ {"tableCfgs"} : Len(m[k]._data) <= MaxRows

\* IoMem.init, called once on a constructed engine
IoMemInit ==
  /\ ~Initialized(mem)
  /\ mem' = _init(mem)
  /\ last' = Called("init", TRUE)
  /\ UNCHANGED <<ios, mems, ioOpen, isOpen, call, writes, socket, peerIsOpen, bridge>>

\* IoMem.createOrExtendTable
IoMemCreateOrExtendTable(tableCfg) ==
  \E r \in {_createOrExtendTable(mem, tableCfg)} :
     /\ mem' = r.mem
     /\ last' = Called("createOrExtendTable", r.ok)
     /\ UNCHANGED <<ios, mems, ioOpen, isOpen, call, writes, socket, peerIsOpen, bridge>>

\* IoMem.write
IoMemWrite(data) ==
  \E r \in {_write(mem, data)} :
     /\ WithinMaxRows(r.mem)
     /\ mem' = r.mem
     /\ last' = Called("write", r.ok)
     /\ UNCHANGED <<ios, mems, ioOpen, isOpen, call, writes, socket, peerIsOpen, bridge>>

\* IoMem.readRows
IoMemReadRows(table, where) ==
  \E r \in {_readRows(mem, table, where)} :
     /\ last' = Called("readRows", r.ok)
     /\ UNCHANGED <<mem, ios, mems, ioOpen, isOpen, call, writes, socket, peerIsOpen, bridge>>

Next ==
  \/ IoMemInit
  \/ \E tableCfg \in CfgInputs \cup DeclaredCfgInputs :
       IoMemCreateOrExtendTable(tableCfg)
  \/ \E data \in WriteInputs \cup DeclaredWriteInputs : IoMemWrite(data)
  \/ \E request \in ReadInputs : IoMemReadRows(request[1], request[2])

Spec == Init /\ [][Next]_vars

----------------------------------------------------------------------------
(* IoMulti: the aggregator over the child engines *)

Range(f) == {f[i] : i \in DOMAIN f}

\* the aggregator object: its isOpen field and its _ios
IoMultiOf(open, multiIos) == [isOpen |-> open, _ios |-> multiIos]

\* .sort((a, b) => a.priority - b.priority) on the children in S: by
\* priority, children of equal priority in the order of _ios (stable)
RECURSIVE SortedByPriority(_, _)
SortedByPriority(multiIos, S) ==
  IF S = {} THEN <<>>
  ELSE LET first == CHOOSE i \in S :
                      \A j \in S :
                        \/ multiIos[i].priority < multiIos[j].priority
                        \/ multiIos[i].priority = multiIos[j].priority /\ i <= j
       IN <<first>> \o SortedByPriority(multiIos, S \ {first})

\* every child, whatever its flags
AllChildren(self) == SortedByPriority(self._ios, DOMAIN self._ios)

\* IoMulti.readables
readables(self) ==
  SortedByPriority(self._ios, {i \in DOMAIN self._ios : self._ios[i].read})

\* IoMulti.writables
writables(self) ==
  SortedByPriority(self._ios, {i \in DOMAIN self._ios : self._ios[i].write})

\* init that opens the aggregator before it looks at its children
InitOpensFirst(self, open) ==
  IF \E i \in DOMAIN self._ios : open[i] = FALSE
  THEN [ok |-> FALSE, err |-> "IosNotInitialized", isOpen |-> TRUE]
  ELSE [ok |-> TRUE, err |-> NoError, isOpen |-> TRUE]

\* IoMulti.init. open[i]: the isOpen field of child i
init(self, open) ==
  IF \E i \in DOMAIN self._ios : open[i] = FALSE
  THEN [ok |-> FALSE, err |-> "IosNotInitialized", isOpen |-> self.isOpen]
  ELSE [ok |-> TRUE, err |-> NoError, isOpen |-> TRUE]

\* the result of an aggregator operation: the memories of the children
\* after it and the children it called
MultiResult(ok, err, rows, ms, calls) ==
  [ok |-> ok, err |-> err, rows |-> rows, mems |-> ms, calls |-> calls]

\* Promise.all over the calls on the writable children: every call runs;
\* the result is rejected with the error of the first child that fails
FanOut(self, ms, res) ==
  LET ws == writables(self)
      failed == {k \in 1..Len(ws) : ~res[ws[k]].ok}
  IN MultiResult(failed = {},
                 IF failed = {} THEN NoError ELSE res[ws[FirstIndex(failed)]].err,
                 <<>>,
                 [i \in DOMAIN ms |-> IF i \in Range(ws) THEN res[i].mem ELSE ms[i]],
                 Range(ws))

\* write that is guarded by the Open state
WriteWhenOpen(self, ms, data) ==
  IF ~self.isOpen THEN MultiResult(FALSE, "NotOpen", <<>>, ms, {})
  ELSE IF writables(self) = <<>>
    THEN MultiResult(FALSE, "NoWritable", <<>>, ms, {})
  ELSE FanOut(self, ms, [i \in DOMAIN ms |-> _write(ms[i], data)])

\* write that stops after the first writable child
WriteFirstWritable(self, ms, data) ==
  IF writables(self) = <<>>
  THEN MultiResult(FALSE, "NoWritable", <<>>, ms, {})
  ELSE \* only the first writable child is written
       LET w == writables(self)[1]
           r == _write(ms[w], data)
       IN MultiResult(r.ok, r.err, <<>>, [ms EXCEPT ![w] = r.mem], {w})

\* write that undoes the writes of the children when one of them fails
WriteAllOrNothing(self, ms, data) ==
  IF writables(self) = <<>>
  THEN MultiResult(FALSE, "NoWritable", <<>>, ms, {})
  ELSE LET r == FanOut(self, ms, [i \in DOMAIN ms |-> _write(ms[i], data)])
       IN IF r.ok THEN r ELSE [r EXCEPT !.mems = ms]

\* IoMulti.write
write(self, ms, data) ==
  IF writables(self) = <<>>
  THEN MultiResult(FALSE, "NoWritable", <<>>, ms, {})
  ELSE FanOut(self, ms, [i \in DOMAIN ms |-> _write(ms[i], data)])

\* createOrExtendTable that reaches the first writable child alone
CreateInFirstWritable(self, ms, tableCfg) ==
  IF writables(self) = <<>>
  THEN MultiResult(FALSE, "NoWritable", <<>>, ms, {})
  ELSE LET w == writables(self)[1]
           r == _createOrExtendTable(ms[w], tableCfg)
       IN MultiResult(r.ok, r.err, <<>>, [ms EXCEPT ![w] = r.mem], {w})

\* IoMulti.createOrExtendTable
createOrExtendTable(self, ms, tableCfg) ==
  IF writables(self) = <<>>
  THEN MultiResult(FALSE, "NoWritable", <<>>, ms, {})
  ELSE FanOut(self, ms,
              [i \in DOMAIN ms |-> _createOrExtendTable(ms[i], tableCfg)])

\* rows.set(tableRow._hash, tableRow) for every row of tableRows: a new
\* key is added at the end, the value of a key the Map has is replaced
RECURSIVE MapSetAll(_, _)
MapSetAll(rows, tableRows) ==
  IF tableRows = <<>> THEN rows
  ELSE LET tableRow == Head(tableRows)
           at == {i \in 1..Len(rows) : rows[i]._hash = tableRow._hash}
       IN MapSetAll(IF at = {} THEN Append(rows, tableRow)
                    ELSE [rows EXCEPT ![FirstIndex(at)] = tableRow],
                    Tail(tableRows))

\* the loop of readRows over the readable children that ends at the first
\* child that has the table
RECURSIVE ReadFirstWithTable(_, _, _, _, _)
ReadFirstWithTable(rs, ms, table, where, acc) ==
  IF rs = <<>> \/ acc.tableExistsAny THEN acc
  ELSE LET r == _readRows(ms[Head(rs)], table, where)
       IN ReadFirstWithTable(
            Tail(rs), ms, table, where,
            IF r.ok
            THEN [rows |-> MapSetAll(acc.rows, r.rows), errors |-> acc.errors,
                  tableExistsAny |-> TRUE]
            ELSE [acc EXCEPT !.errors = Append(@, r.err)])

\* the loop of readRows over the readable children rs, in their order: the
\* rows of a child whose readRows throws are none, its error is collected
RECURSIVE ReadReadables(_, _, _, _, _)
ReadReadables(rs, ms, table, where, acc) ==
  IF rs = <<>> THEN acc
  ELSE LET r == _readRows(ms[Head(rs)], table, where)
       IN ReadReadables(
            Tail(rs), ms, table, where,
            IF r.ok
            THEN [rows |-> MapSetAll(acc.rows, r.rows), errors |-> acc.errors,
                  tableExistsAny |-> TRUE]
            ELSE [acc EXCEPT !.errors = Append(@, r.err)])

\* the write-back of readRows that ends at the first child whose write
\* throws
WriteBackUntilError(self, ms, data) ==
  LET ws == writables(self)
      failed == {k \in 1..Len(ws) : ~_write(ms[ws[k]], data).ok}
  IN [i \in DOMAIN ms |->
        IF \E k \in 1..Len(ws) : ws[k] = i /\ \A f \in failed : k < f
        THEN _write(ms[i], data).mem
        ELSE ms[i]]

\* the write-back of readRows: the merged rows are written to every
\* writable child; a child whose write throws is skipped
WriteBack(self, ms, data) ==
  LET ws == writables(self)
  IN [i \in DOMAIN ms |->
        IF i \in Range(ws) THEN _write(ms[i], data).mem ELSE ms[i]]

\* the error selection of readRows that throws the first collected error
ReadErrorFirst(errors) ==
  IF errors = <<>> THEN "TableNotFound" ELSE errors[1]

\* the error readRows throws when no child has read the table: the first
\* error that is not "Table ... not found", else the first error
ReadError(errors) ==
  LET precise == SelectSeq(errors, LAMBDA e : e # "TableNotFound")
  IN IF errors = <<>> THEN "TableNotFound"
     ELSE IF precise # <<>> THEN precise[1]
     ELSE errors[1]

\* readRows without the try/catch around the write-back: the error of the
\* first writable child whose write throws ends the read
ReadRowsWriteBackThrows(self, ms, table, where) ==
  LET rs == readables(self)
      ws == writables(self)
      acc == ReadReadables(rs, ms, table, where,
                           [rows |-> <<>>, errors |-> <<>>,
                            tableExistsAny |-> FALSE])
      data == [k \in {table} |-> acc.rows]
      failed == {k \in 1..Len(ws) : ~_write(ms[ws[k]], data).ok}
  IN IF rs = <<>> THEN MultiResult(FALSE, "NoReadable", <<>>, ms, {})
     ELSE IF ~acc.tableExistsAny
       THEN MultiResult(FALSE, ReadError(acc.errors), <<>>, ms, Range(rs))
     ELSE IF failed # {}
       THEN MultiResult(FALSE, _write(ms[ws[FirstIndex(failed)]], data).err,
                        <<>>, WriteBackUntilError(self, ms, data),
                        Range(rs) \cup {ws[k] : k \in 1..FirstIndex(failed)})
     ELSE MultiResult(TRUE, NoError, acc.rows, WriteBack(self, ms, data),
                      Range(rs) \cup Range(ws))

\* IoMulti.readRows
readRows(self, ms, table, where) ==
  LET rs == readables(self)
      acc == ReadReadables(rs, ms, table, where,
                           [rows |-> <<>>, errors |-> <<>>,
                            tableExistsAny |-> FALSE])
  IN IF rs = <<>> THEN MultiResult(FALSE, "NoReadable", <<>>, ms, {})
     ELSE IF ~acc.tableExistsAny
       THEN MultiResult(FALSE, ReadError(acc.errors), <<>>, ms, Range(rs))
     ELSE MultiResult(TRUE, NoError, acc.rows,
                      WriteBack(self, ms, [k \in {table} |-> acc.rows]),
                      Range(rs) \cup Range(writables(self)))

\* IoMulti.close: every child is closed, then the aggregator
close(self, open) ==
  [isOpen |-> FALSE, open |-> [i \in DOMAIN open |-> FALSE]]

\* IoMulti.dumpables
dumpables(self) ==
  SortedByPriority(self._ios, {i \in DOMAIN self._ios : self._ios[i].dump})

\* IoMem._dump: a copy of every table
_dump(m) == m

\* IoMem._dumpTable: [ok, err, dump]
_dumpTable(m, table) ==
  IF ~Initialized(m) THEN [ok |-> FALSE, err |-> "TypeError", dump |-> <<>>]
  ELSE IF ~tableExists(m, table)
    THEN [ok |-> FALSE, err |-> "TableNotFound", dump |-> <<>>]
  ELSE [ok |-> TRUE, err |-> NoError, dump |-> [k \in {table} |-> m[table]]]

\* what merge(...dumps) of @rljson/json does with a row that several dumps
\* hold: its code is not part of the repository, and the callers and tests
\* fix only that every row of every dump is in the result
MergeKinds == {"concat", "unionByHash"}

\* the rows of table k in the merge of the dumps, in their order: every
\* row of every dump, a row that a dump before has being taken again
\* ("concat") or not ("unionByHash")
RECURSIVE MergedRows(_, _, _, _)
MergedRows(dumps, k, acc, kind) ==
  IF dumps = <<>> THEN acc
  ELSE MergedRows(Tail(dumps), k,
                  IF k \notin DOMAIN Head(dumps) THEN acc
                  ELSE IF kind = "unionByHash"
                    THEN MergeData(acc, Head(dumps)[k]._data)
                  ELSE acc \o Head(dumps)[k]._data,
                  kind)

\* merge that takes each table from the first dump that has it
MergeFirstWins(dumps, kind) ==
  [k \in UNION {DOMAIN dumps[i] : i \in 1..Len(dumps)} |->
     [_data |-> dumps[FirstIndex({i \in 1..Len(dumps) :
                                    k \in DOMAIN dumps[i]})][k]._data]]

\* merge(...dumps) on dumps: the tables of every dump, each with the rows
\* it has in the dumps
merge(dumps, kind) ==
  [k \in UNION {DOMAIN dumps[i] : i \in 1..Len(dumps)} |->
     [_data |-> MergedRows(dumps, k, <<>>, kind)]]

\* the result of a view of the aggregator: a dump, a count, a type, a list
ViewResult(ok, err, value) == [ok |-> ok, err |-> err, value |-> value]

\* IoMulti.dump
dump(self, ms, kind) ==
  LET ds == dumpables(self)
  IN IF ds = <<>> THEN ViewResult(FALSE, "NoDumpable", <<>>)
     ELSE ViewResult(TRUE, NoError,
                     merge([k \in 1..Len(ds) |-> _dump(ms[ds[k]])], kind))

\* the dumps of dumpTable of the children ds that have the table
RECURSIVE TableDumps(_, _, _)
TableDumps(ds, ms, table) ==
  IF ds = <<>> THEN <<>>
  ELSE LET r == _dumpTable(ms[Head(ds)], table)
       IN (IF r.ok THEN <<r.dump>> ELSE <<>>)
            \o TableDumps(Tail(ds), ms, table)

\* dumpTable without the try/catch around the dumpTable of a child
DumpTableThrows(self, ms, table, kind) ==
  LET ds == dumpables(self)
      dumps == TableDumps(ds, ms, table)
  IN IF ds = <<>> THEN ViewResult(FALSE, "NoDumpable", <<>>)
     ELSE IF Len(dumps) < Len(ds)
       THEN ViewResult(FALSE, "TableNotFound", <<>>)
     ELSE ViewResult(TRUE, NoError, merge(dumps, kind))

\* IoMulti.dumpTable
dumpTable(self, ms, table, kind) ==
  LET ds == dumpables(self)
      dumps == TableDumps(ds, ms, table)
  IN IF ds = <<>> THEN ViewResult(FALSE, "NoDumpable", <<>>)
     ELSE IF dumps = <<>> THEN ViewResult(FALSE, "TableNotFound", <<>>)
     ELSE ViewResult(TRUE, NoError, merge(dumps, kind))

\* IoMulti.rowCount
IoMultiRowCount(self, ms, table, kind) ==
  LET r == dumpTable(self, ms, table, kind)
  IN IF dumpables(self) = <<>> THEN ViewResult(FALSE, "NoDumpable", 0)
     ELSE IF ~r.ok THEN ViewResult(FALSE, r.err, 0)
     ELSE ViewResult(TRUE, NoError, Len(r.value[table]._data))

\* contentType of a child engine: the content type of the table's config
_contentType(m, table) ==
  IF ~Initialized(m) THEN ViewResult(FALSE, "TypeError", Null)
  ELSE IF ~tableExists(m, table) \/ tableCfgOrNull(m, table) = NoCfg
    THEN ViewResult(FALSE, "TableNotFound", Null)
  ELSE ViewResult(TRUE, NoError, tableCfgOrNull(m, table).type)

\* IoMulti.contentType: the for loop returns in its first iteration
contentType(self, ms, table) ==
  LET rs == readables(self)
  IN IF rs = <<>> THEN ViewResult(FALSE, "NoReadable", Null)
     ELSE _contentType(ms[rs[1]], table)

\* rawTableCfgs of a child engine: the config log, every version of every
\* table, oldest first
_rawTableCfgs(m) == IF Initialized(m) THEN m["tableCfgs"]._data ELSE <<>>

\* rawTableCfgs.set(tableCfg.key, tableCfg) unless the Map has the key, for
\* every config of cfgs
RECURSIVE SetUnlessHasKey(_, _)
SetUnlessHasKey(acc, cfgs) ==
  IF cfgs = <<>> THEN acc
  ELSE SetUnlessHasKey(
         IF \E i \in 1..Len(acc) : acc[i].key = Head(cfgs).key
         THEN acc ELSE Append(acc, Head(cfgs)),
         Tail(cfgs))

\* the loop of rawTableCfgs over the readable children rs
RECURSIVE RawTableCfgsOf(_, _, _)
RawTableCfgsOf(rs, ms, acc) ==
  IF rs = <<>> THEN acc
  ELSE RawTableCfgsOf(Tail(rs), ms,
                      SetUnlessHasKey(acc, _rawTableCfgs(ms[Head(rs)])))

\* IoMulti.rawTableCfgs
rawTableCfgs(self, ms) ==
  LET rs == readables(self)
  IN IF rs = <<>> THEN ViewResult(FALSE, "NoReadable", <<>>)
     ELSE ViewResult(TRUE, NoError, RawTableCfgsOf(rs, ms, <<>>))

----------------------------------------------------------------------------
(* SpecMulti: an aggregator over two child engines *)

\* an entry of _ios without its io, which is mems[i] and ioOpen[i]
IoMultiIo(p, r, w, d) ==
  [priority |-> p, read |-> r, write |-> w, dump |-> d]

\* the _ios an aggregator is constructed with: a cache before a remote,
\* both writable; or a writable child after a read-only one
MultiIos ==
  {<<IoMultiIo(1, TRUE, TRUE, FALSE), IoMultiIo(2, TRUE, TRUE, TRUE)>>,
   <<IoMultiIo(2, TRUE, TRUE, TRUE), IoMultiIo(1, TRUE, FALSE, FALSE)>>}

\* the table configs, rows, write and read requests of SpecMulti
MultiCfgs ==
  {TableCfgOf("t", <<Col("a", "string")>>),
   TableCfgOf("t", <<Col("a", "string"), Col("b", "number")>>)}

MultiRows == {Row("s1", Undefined), Row(Undefined, "n1")}

MultiWrites ==
  {[k \in {"t"} |-> <<r>>] : r \in MultiRows}
    \cup {[k \in {"t"} |-> <<Row("s1", Undefined), Row(Undefined, "n1")>>]}

MultiReads ==
  {<<"t", <<>>>>, <<"t", <<<<"a", "s1">>>>>>, <<"t", <<<<"b", "n1">>>>>>,
   <<"t", <<<<"b", Null>>>>>>, <<"u", <<>>>>}

\* last after a call on a child that did not go through the aggregator
CalledChild == Called("child", TRUE)

\* the aggregator of the state
Self == IoMultiOf(isOpen, ios)

\* two engines that are initialized, behind children that are not open
\* yet, and an aggregator constructed over them
InitMulti ==
  /\ mem = EmptyMem
  /\ last = Called("new", TRUE)
  /\ ios \in MultiIos
  /\ mems = [i \in DOMAIN ios |-> _init(EmptyMem)]
  /\ ioOpen = [i \in DOMAIN ios |-> FALSE]
  /\ isOpen = FALSE
  /\ call = NoCall
  /\ writes = NoWrites
  /\ NoPeer

\* init of child i
ChildInit(i) ==
  /\ ~ioOpen[i]
  /\ ioOpen' = [ioOpen EXCEPT ![i] = TRUE]
  /\ last' = CalledChild
  /\ UNCHANGED <<mem, ios, mems, isOpen, call, writes, socket, peerIsOpen, bridge>>

\* createOrExtendTable on child i, not through the aggregator
ChildCreateOrExtendTable(i, tableCfg) ==
  \E r \in {_createOrExtendTable(mems[i], tableCfg)} :
     /\ mems' = [mems EXCEPT ![i] = r.mem]
     /\ last' = CalledChild
     /\ UNCHANGED <<mem, ios, ioOpen, isOpen, call, writes, socket, peerIsOpen, bridge>>

\* write on child i, not through the aggregator
ChildWrite(i, data) ==
  \E r \in {_write(mems[i], data)} :
     /\ WithinMaxRows(r.mem)
     /\ mems' = [mems EXCEPT ![i] = r.mem]
     /\ last' = CalledChild
     /\ UNCHANGED <<mem, ios, ioOpen, isOpen, call, writes, socket, peerIsOpen, bridge>>

\* IoMulti.init
MultiInit ==
  \E r \in {init(Self, ioOpen)} :
     /\ isOpen' = r.isOpen
     /\ last' = Called("init", r.ok)
     /\ UNCHANGED <<mem, ios, mems, ioOpen, call, writes, socket, peerIsOpen, bridge>>

\* IoMulti.close
MultiClose ==
  \E r \in {close(Self, ioOpen)} :
     /\ isOpen' = r.isOpen
     /\ ioOpen' = r.open
     /\ last' = Called("close", TRUE)
     /\ UNCHANGED <<mem, ios, mems, call, writes, socket, peerIsOpen, bridge>>

\* IoMulti.createOrExtendTable
MultiCreateOrExtendTable(tableCfg) ==
  \E r \in {createOrExtendTable(Self, mems, tableCfg)} :
     /\ mems' = r.mems
     /\ last' = Called("createOrExtendTable", r.ok)
     /\ UNCHANGED <<mem, ios, ioOpen, isOpen, call, writes, socket, peerIsOpen, bridge>>

\* IoMulti.write
MultiWrite(data) ==
  \E r \in {write(Self, mems, data)} :
     /\ \A i \in DOMAIN r.mems : WithinMaxRows(r.mems[i])
     /\ mems' = r.mems
     /\ last' = Called("write", r.ok)
     /\ UNCHANGED <<mem, ios, ioOpen, isOpen, call, writes, socket, peerIsOpen, bridge>>

\* IoMulti.readRows, its write-back included
MultiReadRows(table, where) ==
  \E r \in {readRows(Self, mems, table, where)} :
     /\ \A i \in DOMAIN r.mems : WithinMaxRows(r.mems[i])
     /\ mems' = r.mems
     /\ last' = Called("readRows", r.ok)
     /\ UNCHANGED <<mem, ios, ioOpen, isOpen, call, writes, socket, peerIsOpen, bridge>>

NextMulti ==
  \/ \E i \in DOMAIN ios : ChildInit(i)
  \/ \E i \in DOMAIN ios, tableCfg \in MultiCfgs :
       ChildCreateOrExtendTable(i, tableCfg)
  \/ \E i \in DOMAIN ios, data \in MultiWrites : ChildWrite(i, data)
  \/ MultiInit
  \/ MultiClose
  \/ \E tableCfg \in MultiCfgs : MultiCreateOrExtendTable(tableCfg)
  \/ \E data \in MultiWrites : MultiWrite(data)
  \/ \E request \in MultiReads : MultiReadRows(request[1], request[2])

SpecMulti == InitMulti /\ [][NextMulti]_vars

----------------------------------------------------------------------------
(* SpecViews: the merged views of an aggregator over two child engines *)

\* the _ios of SpecViews: two dump-capable read-only children of equal
\* priority, and a cache in front of a remote that alone is dump-capable
ViewIos ==
  {<<IoMultiIo(1, TRUE, FALSE, TRUE), IoMultiIo(1, TRUE, FALSE, TRUE)>>,
   <<IoMultiIo(1, TRUE, TRUE, FALSE), IoMultiIo(2, TRUE, TRUE, TRUE)>>}

\* two initialized engines behind open children, and an aggregator that
\* init has opened
InitViews ==
  /\ mem = EmptyMem
  /\ last = Called("init", TRUE)
  /\ ios \in ViewIos
  /\ mems = [i \in DOMAIN ios |-> _init(EmptyMem)]
  /\ ioOpen = [i \in DOMAIN ios |-> TRUE]
  /\ isOpen = TRUE
  /\ call = NoCall
  /\ writes = NoWrites
  /\ NoPeer

\* IoMulti.dump
MultiDump ==
  \E kind \in MergeKinds :
   \E r \in {dump(Self, mems, kind)} :
     /\ last' = Called("dump", r.ok)
     /\ UNCHANGED <<mem, ios, mems, ioOpen, isOpen, call, writes, socket, peerIsOpen, bridge>>

\* IoMulti.dumpTable
MultiDumpTable(table) ==
  \E kind \in MergeKinds :
   \E r \in {dumpTable(Self, mems, table, kind)} :
     /\ last' = [op |-> "dumpTable", ok |-> r.ok, table |-> table]
     /\ UNCHANGED <<mem, ios, mems, ioOpen, isOpen, call, writes, socket, peerIsOpen, bridge>>

\* IoMulti.rowCount
MultiRowCount(table) ==
  \E kind \in MergeKinds :
   \E r \in {IoMultiRowCount(Self, mems, table, kind)} :
     /\ last' = [op |-> "rowCount", ok |-> r.ok, table |-> table]
     /\ UNCHANGED <<mem, ios, mems, ioOpen, isOpen, call, writes, socket, peerIsOpen, bridge>>

\* IoMulti.contentType
MultiContentType(table) ==
  \E r \in {contentType(Self, mems, table)} :
     /\ last' = [op |-> "contentType", ok |-> r.ok, table |-> table]
     /\ UNCHANGED <<mem, ios, mems, ioOpen, isOpen, call, writes, socket, peerIsOpen, bridge>>

\* IoMulti.rawTableCfgs
MultiRawTableCfgs ==
  \E r \in {rawTableCfgs(Self, mems)} :
     /\ last' = Called("rawTableCfgs", r.ok)
     /\ UNCHANGED <<mem, ios, mems, ioOpen, isOpen, call, writes, socket, peerIsOpen, bridge>>

NextViews ==
  \/ \E i \in DOMAIN ios, tableCfg \in MultiCfgs :
       ChildCreateOrExtendTable(i, tableCfg)
  \/ \E i \in DOMAIN ios, data \in MultiWrites : ChildWrite(i, data)
  \/ MultiDump
  \/ \E table \in TableKeys : MultiDumpTable(table)
  \/ \E table \in TableKeys : MultiRowCount(table)
  \/ \E table \in TableKeys : MultiContentType(table)
  \/ MultiRawTableCfgs

SpecViews == InitViews /\ [][NextViews]_vars

----------------------------------------------------------------------------
(* SpecFanOut: the child writes of IoMulti.write, one step per promise *)

\* the _ios of SpecFanOut: a cache and a remote, both writable
FanOutIos ==
  {<<IoMultiIo(1, TRUE, TRUE, FALSE), IoMultiIo(2, TRUE, TRUE, TRUE)>>}

\* two initialized engines behind open children, and an aggregator that
\* init has opened
InitFanOut ==
  /\ mem = EmptyMem
  /\ last = Called("init", TRUE)
  /\ ios \in FanOutIos
  /\ mems = [i \in DOMAIN ios |-> _init(EmptyMem)]
  /\ ioOpen = [i \in DOMAIN ios |-> TRUE]
  /\ isOpen = TRUE
  /\ call = NoCall
  /\ writes = NoWrites
  /\ NoPeer

\* IoMulti.write up to Promise.all: this.writables.map starts the write of
\* every writable child, none of which has settled
WriteStarts(data) ==
  /\ call.returned /\ call.pending = {}
  /\ IF writables(Self) = <<>>
     THEN /\ last' = Called("write", FALSE)
          /\ UNCHANGED call
     ELSE /\ call' = [data |-> data, pending |-> Range(writables(Self)),
                      err |-> NoError, returned |-> FALSE]
          /\ UNCHANGED last
  /\ UNCHANGED <<mem, ios, mems, ioOpen, isOpen, writes, socket, peerIsOpen, bridge>>

\* the promise of the write of child i settles: the child has merged the
\* rows, or has thrown. Promise.all keeps the first rejection
ChildWriteSettles(i) ==
  /\ i \in call.pending
  /\ \E r \in {_write(mems[i], call.data)} :
       /\ mems' = [mems EXCEPT ![i] = r.mem]
       /\ call' = [call EXCEPT !.pending = @ \ {i},
                               !.err = IF @ = NoError THEN r.err ELSE @]
  /\ UNCHANGED <<mem, last, ios, ioOpen, isOpen, writes, socket, peerIsOpen, bridge>>

\* the promise of Promise.all(writes) settles and IoMulti.write returns:
\* rejected once one child write has rejected, resolved once all resolved
WriteReturns ==
  /\ ~call.returned
  /\ call.err # NoError \/ call.pending = {}
  /\ call' = [call EXCEPT !.returned = TRUE]
  /\ last' = Called("write", call.err = NoError)
  /\ UNCHANGED <<mem, ios, mems, ioOpen, isOpen, writes, socket, peerIsOpen, bridge>>

NextFanOut ==
  \/ \E i \in DOMAIN ios, tableCfg \in MultiCfgs :
       ChildCreateOrExtendTable(i, tableCfg)
  \/ \E data \in MultiWrites : WriteStarts(data)
  \/ \E i \in DOMAIN ios : ChildWriteSettles(i)
  \/ WriteReturns

SpecFanOut == InitFanOut /\ [][NextFanOut]_vars

----------------------------------------------------------------------------
(* SpecWrites: concurrent write calls on one storage engine *)

\* the write calls that can be running at once
Writers == {"w1", "w2", "w3"}

\* the data of the concurrent write requests: the requests of MultiWrites,
\* one with the same row twice, one whose row has a number in the string
\* column a, and one for table "u", which the engine does not have
WritesData ==
  MultiWrites
    \cup {[k \in {"t"} |-> <<Row("s1", "n1"), Row("s1", "n1")>>],
          [k \in {"t"} |-> <<Row("n1", Undefined)>>],
          [k \in {"u"} |-> <<Row("s1", Undefined)>>]}

\* the store the concurrent writes start on: an initialized engine with
\* table "t" of columns a: string and b: number, which holds one row
WritesMem ==
  _write(_createOrExtendTable(_init(EmptyMem),
                              TableCfgOf("t", <<Col("a", "string"),
                                                Col("b", "number")>>)).mem,
         [k \in {"t"} |-> <<Row("s1", Undefined)>>]).mem

InitWrites ==
  /\ mem = WritesMem
  /\ last = Called("write", TRUE)
  /\ NoMulti
  /\ call = NoCall
  /\ writes = [c \in Writers |-> [data |-> <<>>, pc |-> "new"]]
  /\ NoPeer

\* IoMem._write up to its first await: the call is made with its data and
\* waits for throwWhenTablesDoNotExist
WriteCalled(c, data) ==
  /\ writes[c].pc = "new"
  /\ writes' = [writes EXCEPT ![c] = [data |-> data, pc |-> "tablesExist"]]
  /\ UNCHANGED <<mem, last, ios, mems, ioOpen, isOpen, call, socket, peerIsOpen, bridge>>

\* await throwWhenTablesDoNotExist(request.data) settles: the call is
\* rejected, or goes on to wait for throwWhenTableDataDoesNotMatchCfg
WriteChecksTables(c) ==
  /\ writes[c].pc = "tablesExist"
  /\ IF MissingTables(mem, writes[c].data) # {}
     THEN /\ writes' = [writes EXCEPT ![c].pc = "rejected"]
          /\ last' = Called("write", FALSE)
     ELSE /\ writes' = [writes EXCEPT ![c].pc = "dataMatchesCfg"]
          /\ UNCHANGED last
  /\ UNCHANGED <<mem, ios, mems, ioOpen, isOpen, call, socket, peerIsOpen, bridge>>

\* await throwWhenTableDataDoesNotMatchCfg(request.data) settles: the call
\* is rejected, or goes on to the merge loop
WriteChecksData(c) ==
  /\ writes[c].pc = "dataMatchesCfg"
  /\ IF TablesInError(mem, writes[c].data) # {}
     THEN /\ writes' = [writes EXCEPT ![c].pc = "rejected"]
          /\ last' = Called("write", FALSE)
     ELSE /\ writes' = [writes EXCEPT ![c].pc = "merge"]
          /\ UNCHANGED last
  /\ UNCHANGED <<mem, ios, mems, ioOpen, isOpen, call, socket, peerIsOpen, bridge>>

\* the merge loop of a call that merges into the store as it was before
\* the concurrent calls
WriteMergesStale(c) ==
  /\ writes[c].pc = "merge"
  /\ mem' = MergedMem(WritesMem, writes[c].data)
  /\ writes' = [writes EXCEPT ![c].pc = "resolved"]
  /\ last' = Called("write", TRUE)
  /\ UNCHANGED <<ios, mems, ioOpen, isOpen, call, socket, peerIsOpen, bridge>>

\* the rest of IoMem._write, which has no await: the merge loop over the
\* tables of the request and the hash updates, on the store as it is now
WriteMerges(c) ==
  /\ writes[c].pc = "merge"
  /\ mem' = MergedMem(mem, writes[c].data)
  /\ writes' = [writes EXCEPT ![c].pc = "resolved"]
  /\ last' = Called("write", TRUE)
  /\ UNCHANGED <<ios, mems, ioOpen, isOpen, call, socket, peerIsOpen, bridge>>

NextWrites ==
  \/ \E c \in Writers, data \in WritesData : WriteCalled(c, data)
  \/ \E c \in Writers : WriteChecksTables(c)
  \/ \E c \in Writers : WriteChecksData(c)
  \/ \E c \in Writers : WriteMerges(c)

SpecWrites == InitWrites /\ [][NextWrites]_vars

----------------------------------------------------------------------------
(* Claims on the storage engine *)

\* the configs logged for a table key, oldest first
RECURSIVE VersionsOf(_, _)
VersionsOf(tables, key) ==
  IF tables = <<>> THEN <<>>
  ELSE (IF Head(tables).key = key THEN <<Head(tables)>> ELSE <<>>)
         \o VersionsOf(Tail(tables), key)

\* column list e is a prefix of column list u: the same keys and types,
\* position by position
IsPrefix(e, u) ==
  /\ Len(e) <= Len(u)
  /\ \A i \in 1..Len(e) : e[i].key = u[i].key /\ e[i].type = u[i].type

\* C4: writing identical row data to a table twice yields the same row
\* count and the same table hash as writing it once
C4_IdempotentWrite ==
  \A data \in WriteInputs :
    \A once \in {_write(mem, data)} :
      once.ok =>
        \A twice \in {_write(once.mem, data)} :
          /\ twice.ok
          /\ \A t \in DOMAIN data :
               /\ rowCount(twice.mem, t) = rowCount(once.mem, t)
               /\ twice.mem[t]._hash = once.mem[t]._hash

\* a write of two different rows has filled table "t", and the same two
\* rows are accepted again
C4_Witness ==
  /\ last = Called("write", TRUE)
  /\ tableExists(mem, "t")
  /\ rowCount(mem, "t") = 2
  /\ \E data \in WriteInputs :
       /\ DOMAIN data = {"t"}
       /\ Len(data["t"]) = 2
       /\ data["t"][1] # data["t"][2]
       /\ {HshRow(data["t"][i])._hash : i \in 1..2}
            = {mem["t"]._data[i]._hash : i \in 1..2}
       /\ _write(mem, data).ok

\* C5: the column list of each accepted config version of a table key is a
\* prefix of the next accepted version, and every update whose column list
\* does not have the existing column list as a prefix is rejected
C5_SchemaMonotone ==
  Initialized(mem) =>
    /\ \A key \in TableKeys :
         LET versions == VersionsOf(mem["tableCfgs"]._data, key)
         IN \A i \in 1..(Len(versions) - 1) :
              IsPrefix(versions[i].columns, versions[i + 1].columns)
    /\ \A tableCfg \in CfgInputs :
         \A existing \in {tableCfgOrNull(mem, tableCfg.key)} :
           (existing # NoCfg /\ ~IsPrefix(existing.columns, tableCfg.columns))
             => ~_createOrExtendTable(mem, tableCfg).ok

\* table "t" has two accepted versions, and the last update was rejected
C5_Witness ==
  /\ last = Called("createOrExtendTable", FALSE)
  /\ Initialized(mem)
  /\ Len(VersionsOf(mem["tableCfgs"]._data, "t")) = 2
  /\ \E tableCfg \in CfgInputs :
       /\ tableCfg.key = "t"
       /\ ~IsPrefix(tableCfgOrNull(mem, "t").columns, tableCfg.columns)

\* C6: a createOrExtendTable call that is rejected leaves the whole store
\* unchanged: the config log, every table's config reference and rows
C6_RejectedCfgChangesNothing ==
  [][(last'.op = "createOrExtendTable" /\ ~last'.ok) => mem' = mem]_vars

\* an update of table "t", which holds a row, was rejected
C6_Witness ==
  /\ last = Called("createOrExtendTable", FALSE)
  /\ tableExists(mem, "t")
  /\ rowCount(mem, "t") > 0
  /\ \E tableCfg \in CfgInputs :
       /\ tableCfg.key = "t"
       /\ ~_createOrExtendTable(mem, tableCfg).ok

\* C7: a write that is rejected applies nothing: no row is added to any
\* table, including tables of the batch that exist and whose rows are valid
C7_RejectedWriteAppliesNothing ==
  [][(last'.op = "write" /\ ~last'.ok) => mem' = mem]_vars

\* a write was rejected where a batch for the tables "t" and "u" is: its
\* rows for "t" are valid, and "u" is missing or its row is in error
C7_Witness ==
  /\ last = Called("write", FALSE)
  /\ tableExists(mem, "t")
  /\ \E data \in WriteInputs :
       /\ DOMAIN data = {"t", "u"}
       /\ _write(mem, [k \in {"t"} |-> data["t"]]).ok
       /\ _write(mem, [k \in {"t"} |-> data["t"]]).mem # mem
       /\ ~_write(mem, data).ok

\* a where entry matches a row: the values are equal, or null is expected
\* and the row lacks the column
EntryMatches(row, entry) ==
  \/ equals(RowValue(row, entry[1]), entry[2])
  \/ entry[2] = Null /\ RowValue(row, entry[1]) = Undefined

----------------------------------------------------------------------------
(* Claims on the aggregator *)

\* the hashes of the rows of a sequence
Hashes(rows) == {rows[i]._hash : i \in 1..Len(rows)}

\* the rows child i returns for a read request: none when its readRows
\* throws (it lacks the table, or a column of where)
ChildRows(i, table, where) ==
  LET r == _readRows(mems[i], table, where)
  IN IF r.ok THEN Range(r.rows) ELSE {}

ContainsRows(m, table, rows) ==
  \A i \in 1..Len(rows) :
    /\ tableExists(m, table)
    /\ rows[i]._hash \in Hashes(m[table]._data)

C3_FanOutWrite ==
  \A data \in MultiWrites :
    \A r \in {write(Self, mems, data)} :
      (r.ok /\ Len(writables(Self)) = 2) =>
        \A w \in Range(writables(Self)), t \in DOMAIN data :
          /\ tableExists(r.mems[w], t)
          /\ Hashes(r.mems[w][t]._data)
               = Hashes(mems[w][t]._data) \cup Hashes(AddedData(data[t]))
          /\ Cardinality(Hashes(r.mems[w][t]._data)) = Len(r.mems[w][t]._data)

\* a write through the aggregator has succeeded, and its two writable
\* children hold different rows: each kept its own prior rows
C3_Witness ==
  /\ last = Called("write", TRUE)
  /\ Len(writables(Self)) = 2
  /\ rowCount(mems[1], "t") = 2
  /\ rowCount(mems[2], "t") = 1

\* C9 as claimed: every IoMulti operation other than init fails when the
\* aggregator is not Open, without delegating to any child
C9_NotOpenFailsFast ==
  ~isOpen =>
    /\ \A data \in MultiWrites :
         \A r \in {write(Self, mems, data)} : ~r.ok /\ r.calls = {}
    /\ \A tableCfg \in MultiCfgs :
         \A r \in {createOrExtendTable(Self, mems, tableCfg)} :
           ~r.ok /\ r.calls = {}
    /\ \A request \in MultiReads :
         \A r \in {readRows(Self, mems, request[1], request[2])} :
           ~r.ok /\ r.calls = {}

\* C9, amended: the IoMulti operations other than init do not look at the
\* Open state. When the aggregator is not Open (before a successful init,
\* or after close), write and createOrExtendTable call every writable
\* child and succeed exactly when every one of these calls succeeds, and
\* readRows calls every readable child and succeeds exactly when one of
\* them reads the table
C9_NotOpenDelegates ==
  ~isOpen =>
    /\ \A data \in MultiWrites :
         \A r \in {write(Self, mems, data)} :
           /\ r.calls = Range(writables(Self))
           /\ r.ok <=> \A w \in r.calls : _write(mems[w], data).ok
           /\ \A w \in r.calls : r.mems[w] = _write(mems[w], data).mem
    /\ \A tableCfg \in MultiCfgs :
         \A r \in {createOrExtendTable(Self, mems, tableCfg)} :
           /\ r.calls = Range(writables(Self))
           /\ r.ok <=> \A w \in r.calls :
                         _createOrExtendTable(mems[w], tableCfg).ok
    /\ \A request \in MultiReads :
         \A r \in {readRows(Self, mems, request[1], request[2])} :
           /\ Range(readables(Self)) \subseteq r.calls
           /\ r.ok <=> \E i \in Range(readables(Self)) :
                         _readRows(mems[i], request[1], request[2]).ok

\* a write through an aggregator that is not Open has succeeded and the
\* writable children hold the rows
C9_Witness ==
  /\ ~isOpen
  /\ last = Called("write", TRUE)
  /\ \A w \in Range(writables(Self)) :
       tableExists(mems[w], "t") /\ rowCount(mems[w], "t") > 0

----------------------------------------------------------------------------
(* Claims about the aggregator: errors and merged views *)

\* C12: if the write of a writable child fails, IoMulti.write fails with
\* the error of a child whose write failed, and every writable child whose
\* write succeeded holds what its own write produced: the written rows
C12_PartialWriteKept ==
  \A data \in MultiWrites :
    \A r \in {write(Self, mems, data)} :
      \A f \in Range(writables(Self)) :
        ~_write(mems[f], data).ok =>
          /\ ~r.ok
          /\ \E g \in Range(writables(Self)) :
               ~_write(mems[g], data).ok /\ r.err = _write(mems[g], data).err
          /\ \A w \in Range(writables(Self)) :
               _write(mems[w], data).ok =>
                 /\ r.mems[w] = _write(mems[w], data).mem
                 /\ \A t \in DOMAIN data :
                      ContainsRows(r.mems[w], t, AddedData(data[t]))

\* a write through the aggregator has failed in one writable child, which
\* lacks the table, and the other writable child holds rows of the table
C12_Witness ==
  /\ last = Called("write", FALSE)
  /\ Len(writables(Self)) = 2
  /\ \E w, f \in Range(writables(Self)) :
       /\ ~tableExists(mems[f], "t")
       /\ tableExists(mems[w], "t") /\ rowCount(mems[w], "t") > 0
       /\ \E data \in MultiWrites :
            /\ ~write(Self, mems, data).ok
            /\ _write(mems[w], data).mem = mems[w]

\* the errors of the readable children whose readRows throws, in the
\* order of the readables
ChildReadErrors(table, where) ==
  LET rs == readables(Self)
      thrown == SelectSeq(rs, LAMBDA i : ~_readRows(mems[i], table, where).ok)
  IN [k \in 1..Len(thrown) |-> _readRows(mems[thrown[k]], table, where).err]

C14_WriteBackErrorSwallowed ==
  \A request \in MultiReads :
    \A r \in {readRows(Self, mems, request[1], request[2])} :
      \A f \in Range(writables(Self)) :
        (/\ \E i \in Range(readables(Self)) :
              _readRows(mems[i], request[1], request[2]).ok
         /\ ~_write(mems[f], [k \in {request[1]} |-> r.rows]).ok)
        => /\ r.ok /\ r.err = NoError
           /\ Range(r.rows)
                = UNION {ChildRows(i, request[1], request[2]) :
                           i \in Range(readables(Self))}
           /\ Range(writables(Self)) \subseteq r.calls
           /\ r.mems[f] = mems[f]
           /\ \A w \in Range(writables(Self)) \ {f} :
                \A wr \in {_write(mems[w], [k \in {request[1]} |-> r.rows])} :
                  wr.ok => r.mems[w] = wr.mem
                             /\ ContainsRows(r.mems[w], request[1], r.rows)

\* readRows has succeeded with two writable children: the write-back
\* throws in the first, whose table lacks a column of the merged rows, and
\* the second, written after it, holds the rows of the first and its own
C14_Witness ==
  /\ last = Called("readRows", TRUE)
  /\ Len(writables(Self)) = 2
  /\ \A i \in DOMAIN mems : tableExists(mems[i], "t")
  /\ \E r \in {readRows(Self, mems, "t", <<>>)} :
       /\ r.ok
       /\ ~_write(mems[writables(Self)[1]], [k \in {"t"} |-> r.rows]).ok
       /\ rowCount(mems[writables(Self)[1]], "t") > 0
       /\ Hashes(mems[writables(Self)[2]]["t"]._data) = Hashes(r.rows)
       /\ Hashes(mems[writables(Self)[1]]["t"]._data) # Hashes(r.rows)

\* C15 as claimed: IoMulti.readRows returns the rows of the first readable
\* child, in priority order, that has the table and rows matching where,
\* and no row of a later child
C15_ReadRowsFirstMatch ==
  \A request \in MultiReads :
    \A r \in {readRows(Self, mems, request[1], request[2])} :
      \A rs \in {readables(Self)} :
        \A k \in 1..Len(rs) :
          (/\ r.ok
           /\ ChildRows(rs[k], request[1], request[2]) # {}
           /\ \A j \in 1..(k - 1) :
                ChildRows(rs[j], request[1], request[2]) = {})
          => Range(r.rows) = ChildRows(rs[k], request[1], request[2])

\* the dumps of the dump-capable children, in the order of the dumpables
ChildDumps == [k \in 1..Len(dumpables(Self)) |-> _dump(mems[dumpables(Self)[k]])]

\* the dumps in the reverse order
Reverse(s) == [k \in 1..Len(s) |-> s[Len(s) + 1 - k]]

\* how often the row of this hash is in the rows
Occurrences(hash, rows) == Cardinality({i \in 1..Len(rows) : rows[i]._hash = hash})

ChildCfgLogs == [k \in 1..Len(readables(Self)) |-> _rawTableCfgs(mems[readables(Self)[k]])]

\* C18 as claimed: IoMulti.rawTableCfgs returns every distinct config hash
\* of the config log of any readable child, each once, so that all the
\* versions of one table key are in the result
C18_EveryConfigHashOnce ==
  \A r \in {rawTableCfgs(Self, mems)} :
    /\ r.ok
    /\ Hashes(r.value)
         = UNION {Hashes(ChildCfgLogs[k]) : k \in 1..Len(ChildCfgLogs)}
    /\ Cardinality(Hashes(r.value)) = Len(r.value)

\* C19 as claimed: IoMulti.contentType returns the content type of the
\* table from the first readable child, in priority order, that has the
\* table, and fails only when no readable child has it
C19_ContentTypeOfFirstWithTable ==
  \A table \in TableKeys :
    \A r \in {contentType(Self, mems, table)} :
      \A rs \in {readables(Self)} :
        \A having \in {{k \in 1..Len(rs) : tableExists(mems[rs[k]], table)}} :
          /\ r.ok <=> having # {}
          /\ r.ok =>
               r.value = _contentType(mems[rs[FirstIndex(having)]], table).value

\* C11 as claimed: when IoMulti.write has returned, with success or with
\* failure, no child write that the call started is still in flight
C11_NoChildWriteInFlightAtReturn ==
  call.returned => call.pending = {}

----------------------------------------------------------------------------
(* Claims about table configs and rows *)

C22_DeletedWhateverTheLength ==
  Initialized(mem) =>
    \A update \in CfgInputs :
      \A existing \in {tableCfgOrNull(mem, update.key)} :
        (/\ existing # NoCfg
         /\ throwOnInvalidTableCfg(update) = NoError
         /\ DeletedColumnKeys(existing, update) # {})
          => _createOrExtendTable(mem, update).err = "ColumnDeleted"

\* C22: createOrExtendTable with an update of supported column types that
\* lacks a column key of the existing config is rejected and leaves the
\* store as it was; the error is ColumnDeleted when the update has fewer
\* columns than the existing config, and ColumnRenamed when it has as many
\* or more
C22_DeletedWhenShorterElseRenamed ==
  Initialized(mem) =>
    \A update \in CfgInputs :
      \A existing \in {tableCfgOrNull(mem, update.key)} :
        (/\ existing # NoCfg
         /\ throwOnInvalidTableCfg(update) = NoError
         /\ DeletedColumnKeys(existing, update) # {})
          => \A r \in {_createOrExtendTable(mem, update)} :
               /\ ~r.ok
               /\ r.mem = mem
               /\ r.err = IF Len(existing.columns) > Len(update.columns)
                          THEN "ColumnDeleted"
                          ELSE "ColumnRenamed"

\* createOrExtendTable has been rejected, and table "t" has a config with
\* one column, so that an update with one column of another key lacks a
\* key of the existing config and is not shorter
C22_Witness ==
  /\ last = Called("createOrExtendTable", FALSE)
  /\ tableExists(mem, "t")
  /\ Len(tableCfgOrNull(mem, "t").columns) = 1
  /\ \E update \in CfgInputs :
       /\ update.key = "t"
       /\ Len(update.columns) = 1
       /\ DeletedColumnKeys(tableCfgOrNull(mem, "t"), update) # {}
       /\ _createOrExtendTable(mem, update).err = "ColumnRenamed"

\* C23: createOrExtendTable with an update that passes the checks and has
\* as many columns as the existing config of its key succeeds and changes
\* nothing: the config log, the table with its config reference and rows,
\* and the dump are as before
C23_SameColumnCountIsNoOp ==
  Initialized(mem) =>
    \A update \in CfgInputs :
      \A existing \in {tableCfgOrNull(mem, update.key)} :
        (/\ existing # NoCfg
         /\ throwWhenTableIsNotCompatible(mem, update) = NoError
         /\ Len(update.columns) = Len(existing.columns))
          => \A r \in {_createOrExtendTable(mem, update)} :
               /\ r.ok
               /\ r.mem["tableCfgs"] = mem["tableCfgs"]
               /\ r.mem[update.key] = mem[update.key]
               /\ _dump(r.mem) = _dump(mem)

\* createOrExtendTable has succeeded on table "t", which holds a row, and
\* the config of "t" given again is accepted
C23_Witness ==
  /\ last = Called("createOrExtendTable", TRUE)
  /\ tableExists(mem, "t")
  /\ rowCount(mem, "t") > 0
  /\ \E update \in CfgInputs :
       /\ update.key = "t"
       /\ Len(update.columns) = Len(tableCfgOrNull(mem, "t").columns)
       /\ _createOrExtendTable(mem, update).ok

\* C24: when createOrExtendTable accepts an update with more columns than
\* the existing config of its key, the config log is the log before with
\* the hashed update appended, the table's config reference is the hash of
\* the update, and the rows of every table are as before; a write, after
\* it, of a row that matches the update and has a value in a new column is
\* accepted and adds one row
C24_ExtendAppendsAndRepoints ==
  Initialized(mem) =>
    \A update \in CfgInputs :
      \A existing \in {tableCfgOrNull(mem, update.key)} :
        (/\ existing # NoCfg
         /\ throwWhenTableIsNotCompatible(mem, update) = NoError
         /\ Len(update.columns) > Len(existing.columns))
          => \A r \in {_createOrExtendTable(mem, update)} :
               /\ r.ok
               /\ r.mem["tableCfgs"]._data =
                    Append(mem["tableCfgs"]._data, HshCfg(update))
               /\ r.mem[update.key]._tableCfg = HshCfg(update)._hash
               /\ tableCfgOrNull(r.mem, update.key) = HshCfg(update)
               /\ DOMAIN r.mem = DOMAIN mem
               /\ \A k \in (DOMAIN mem) \ {"tableCfgs"} :
                    /\ r.mem[k]._data = mem[k]._data
                    /\ rowCount(r.mem, k) = rowCount(mem, k)
               /\ \A row \in WriteRows :
                    (/\ validateRljsonAgainstTableCfg(<<row>>, update) = {}
                     /\ \E k \in ColumnKeysOf(update) \ ColumnKeysOf(existing) :
                          RowValue(row, k) \notin {Undefined, Null})
                      => \A w \in {_write(r.mem, [t \in {update.key} |-> <<row>>])} :
                           /\ w.ok
                           /\ rowCount(w.mem, update.key) =
                                rowCount(mem, update.key) + 1

\* createOrExtendTable has succeeded on table "t", which holds a row, and
\* the log holds two versions of the config of "t", the newest with two
\* columns and referred to by the table
C24_Witness ==
  /\ last = Called("createOrExtendTable", TRUE)
  /\ tableExists(mem, "t")
  /\ rowCount(mem, "t") > 0
  /\ Len(VersionsOf(mem["tableCfgs"]._data, "t")) = 2
  /\ Len(tableCfgOrNull(mem, "t").columns) = 2
  /\ mem["t"]._tableCfg = tableCfgOrNull(mem, "t")._hash

C28_ConcurrentWritesUnionByHash ==
  LET Resolved == {c \in Writers : writes[c].pc = "resolved"}
      WrittenHashes(k) ==
        UNION {Hashes(AddedData(writes[c].data[k])) :
                 c \in {d \in Resolved : k \in DOMAIN writes[d].data}}
  IN /\ DOMAIN mem = DOMAIN WritesMem
     /\ \A c \in Writers :
          /\ writes[c].pc \in {"resolved", "merge"}
               => _write(WritesMem, writes[c].data).ok
          /\ writes[c].pc = "rejected"
               => ~_write(WritesMem, writes[c].data).ok
     /\ \A k \in DOMAIN mem :
          /\ \A i, j \in 1..Len(mem[k]._data) :
               mem[k]._data[i]._hash = mem[k]._data[j]._hash => i = j
          /\ Hashes(mem[k]._data) =
               Hashes(WritesMem[k]._data) \cup WrittenHashes(k)

\* the three calls have settled, two of them have resolved with the same
\* data, and table "t" holds three rows
C28_Witness ==
  /\ \A c \in Writers : writes[c].pc \in {"resolved", "rejected"}
  /\ \E c, d \in Writers :
       /\ c # d
       /\ writes[c].pc = "resolved" /\ writes[d].pc = "resolved"
       /\ writes[c].data = writes[d].data
  /\ rowCount(mem, "t") = 3

C30_ReadRowsFailsForTableOrColumnOnly ==
  Initialized(mem) =>
    \A request \in ReadInputs :
      \A r \in {_readRows(mem, request[1], request[2])} :
        IF ~tableExists(mem, request[1])
        THEN ~r.ok /\ r.err = "TableNotFound"
        ELSE IF \E i \in 1..Len(request[2]) :
                  request[2][i][1] \notin
                    ColumnKeysOf(tableCfgOrNull(mem, request[1]))
          THEN ~r.ok /\ r.err = "ColumnsDoNotExist"
          ELSE r.ok

\* readRows has succeeded, table "t" holds a row, and a read of "t" whose
\* where no row matches succeeds with no row
C30_Witness ==
  /\ last = Called("readRows", TRUE)
  /\ tableExists(mem, "t")
  /\ rowCount(mem, "t") > 0
  /\ \E request \in ReadInputs :
       /\ request[1] = "t"
       /\ request[2] # <<>>
       /\ _readRows(mem, "t", request[2]).ok
       /\ _readRows(mem, "t", request[2]).rows = <<>>

----------------------------------------------------------------------------
(* SpecPeer: an IoPeer over a PeerSocketMock whose Io is an IoMulti *)

\* the listeners a socket keeps at most in the model
MaxListeners == 6

\* for (const cb of listeners) cb({}) of connect() and disconnect(): the
\* isOpen of the IoPeer after the listeners of the event have run, in the
\* order of their registration
RECURSIVE Emitted(_, _, _)
Emitted(listeners, eventName, open) ==
  IF listeners = <<>> THEN open
  ELSE Emitted(Tail(listeners), eventName,
               IF Head(listeners)[1] # eventName THEN open
               ELSE IF Head(listeners)[2] = "isOpen = true" THEN TRUE
               ELSE IF Head(listeners)[2] = "isOpen = false" THEN FALSE
               ELSE open)

\* PeerSocketMock.emit: the method of the Io named by the event is called
\* and the callback gets (result, null) when its promise resolves and
\* (null, err) when it rejects. [result, error, mems]
emit(self, ms, eventName, args, kind) ==
  LET r == CASE eventName = "dump" -> dump(self, ms, kind)
             [] eventName = "dumpTable" -> dumpTable(self, ms, args, kind)
             [] eventName = "rawTableCfgs" -> rawTableCfgs(self, ms)
             [] eventName = "readRows" ->
                  LET rr == readRows(self, ms, args[1], args[2])
                  IN [ok |-> rr.ok, err |-> rr.err, value |-> rr.rows,
                      mems |-> rr.mems]
             [] eventName = "write" ->
                  LET w == write(self, ms, args)
                  IN [ok |-> w.ok, err |-> w.err, value |-> Undefined,
                      mems |-> w.mems]
             [] eventName = "createOrExtendTable" ->
                  LET c == createOrExtendTable(self, ms, args)
                  IN [ok |-> c.ok, err |-> c.err, value |-> Undefined,
                      mems |-> c.mems]
  IN [result |-> IF r.ok THEN r.value ELSE Null,
      error |-> IF r.ok THEN Null ELSE r.err,
      mems |-> IF "mems" \in DOMAIN r THEN r.mems ELSE ms]

\* the promise an IoPeer method returns for the callback arguments cb: the
\* callbacks of dump and rawTableCfgs take the data alone and resolve with
\* it; the others reject with the error when there is one
IoPeerPromise(eventName, cb) ==
  IF eventName \in {"dump", "rawTableCfgs"}
  THEN ViewResult(TRUE, NoError, cb.result)
  ELSE IF cb.error # Null THEN ViewResult(FALSE, cb.error, Undefined)
  ELSE ViewResult(TRUE, NoError, cb.result)

\* the calls made through the IoPeer: <<event, arguments>>
PeerRequests ==
  {<<"dump", <<>>>>, <<"rawTableCfgs", <<>>>>, <<"dumpTable", "t">>,
   <<"readRows", <<"t", <<>>>>>>}
    \cup {<<"write", data>> : data \in MultiWrites}
    \cup {<<"createOrExtendTable", tableCfg>> : tableCfg \in MultiCfgs}

\* an IoMulti over one initialized engine, which is readable, writable and
\* dump-capable, or writable only; a PeerSocketMock for the IoMulti and an
\* IoPeer on the socket, none of which is open
InitPeer ==
  /\ mem = EmptyMem
  /\ last = Called("new", TRUE)
  /\ ios \in {<<IoMultiIo(1, TRUE, TRUE, TRUE)>>,
              <<IoMultiIo(1, FALSE, TRUE, FALSE)>>}
  /\ mems = [i \in DOMAIN ios |-> _init(EmptyMem)]
  /\ ioOpen = [i \in DOMAIN ios |-> TRUE]
  /\ isOpen = FALSE
  /\ call = NoCall
  /\ writes = NoWrites
  /\ NoPeer

\* IoPeer.init: the two listeners that keep isOpen are registered, the
\* socket connects, which runs the connect listeners, and the promise
\* resolves at once for a connected socket
PeerInit ==
  /\ Len(socket.listeners) + 2 <= MaxListeners
  /\ \E listeners \in {socket.listeners \o <<<<"connect", "isOpen = true">>,
                                            <<"disconnect", "isOpen = false">>>>} :
       /\ socket' = [connected |-> TRUE, listeners |-> listeners]
       /\ peerIsOpen' = TRUE
  /\ last' = Called("IoPeer.init", TRUE)
  /\ UNCHANGED <<mem, ios, mems, ioOpen, isOpen, call, writes, bridge>>

\* close that disconnects a socket whose listeners are not run
PeerCloseSilent ==
  /\ socket' = [socket EXCEPT !.connected = FALSE]
  /\ last' = Called("IoPeer.close", TRUE)
  /\ UNCHANGED <<mem, ios, mems, ioOpen, isOpen, call, writes, peerIsOpen,
                 bridge>>

\* IoPeer.close: returns at once on a socket that is not connected; else a
\* listener that resolves is registered and the socket disconnects, which
\* runs the disconnect listeners
PeerClose ==
  /\ IF ~socket.connected
     THEN UNCHANGED <<socket, peerIsOpen>>
     ELSE /\ Len(socket.listeners) + 1 <= MaxListeners
          /\ \E listeners \in {Append(socket.listeners,
                                      <<"disconnect", "resolve">>)} :
               /\ socket' = [connected |-> FALSE, listeners |-> listeners]
               /\ peerIsOpen' = Emitted(listeners, "disconnect", peerIsOpen)
  /\ last' = Called("IoPeer.close", TRUE)
  /\ UNCHANGED <<mem, ios, mems, ioOpen, isOpen, call, writes, bridge>>

\* IoPeer.isReady: isOpen is set from socket.connected; rejects when not
\* connected
PeerIsReady ==
  /\ peerIsOpen' = socket.connected
  /\ last' = Called("IoPeer.isReady", socket.connected)
  /\ UNCHANGED <<mem, ios, mems, ioOpen, isOpen, call, writes, socket, bridge>>

\* a method of the IoPeer other than init, close and isReady: the event is
\* emitted and the promise settles with what the callback gets
PeerCall(eventName, args) ==
  \E kind \in MergeKinds :
    \E cb \in {emit(Self, mems, eventName, args, kind)} :
      /\ \A i \in DOMAIN cb.mems : WithinMaxRows(cb.mems[i])
      /\ mems' = cb.mems
      /\ last' = Called(eventName, IoPeerPromise(eventName, cb).ok)
      /\ UNCHANGED <<mem, ios, ioOpen, isOpen, call, writes, socket,
                     peerIsOpen, bridge>>

NextPeer ==
  \/ PeerInit
  \/ PeerClose
  \/ PeerIsReady
  \/ MultiInit
  \/ MultiClose
  \/ \E request \in PeerRequests : PeerCall(request[1], request[2])

SpecPeer == InitPeer /\ [][NextPeer]_vars

----------------------------------------------------------------------------
(* Claims about the remote child, the bridge and the order of the calls *)

\* C31: isOpen of the IoPeer and of the IoMulti is false after
\* construction and becomes true by a successful init only; it is true
\* after every successful init and false after every close, a close of an
\* engine that is closed included
C31_IsOpenFollowsInitAndClose ==
  /\ ~peerIsOpen /\ ~isOpen
  /\ [][/\ (last'.op = "IoPeer.init" /\ last'.ok) => peerIsOpen'
        /\ last'.op = "IoPeer.close" => ~peerIsOpen'
        /\ (~peerIsOpen /\ peerIsOpen') => last'.op = "IoPeer.init"
        /\ (last'.op = "init" /\ last'.ok) => isOpen'
        /\ last'.op = "close" => ~isOpen'
        /\ (~isOpen /\ isOpen') => last'.op = "init"]_vars

\* the IoPeer has been closed after an init (the listener of close is on
\* the socket) and is closed again, and the IoMulti has been closed
C31_Witness ==
  /\ last = Called("IoPeer.close", TRUE)
  /\ ~socket.connected
  /\ \E i \in 1..Len(socket.listeners) :
       socket.listeners[i] = <<"disconnect", "resolve">>
  /\ ~peerIsOpen
  /\ ~isOpen /\ ioOpen[1] = FALSE

\* C32: every call through the IoPeer settles as the call on the Io behind
\* its socket: it resolves with the same result when that call resolves,
\* and rejects with the same error when that call rejects
C32_RemoteCallAsBackingCall ==
  \A request \in PeerRequests, kind \in MergeKinds :
    \A cb \in {emit(Self, mems, request[1], request[2], kind)} :
      \A p \in {IoPeerPromise(request[1], cb)} :
        IF cb.error = Null
        THEN p.ok /\ p.value = cb.result
        ELSE ~p.ok /\ p.err = cb.error

----------------------------------------------------------------------------
(* SpecCascade: IoMulti.readRows, one step per awaited child call *)

\* two initialized engines behind open children and an open aggregator,
\* the children of MultiIos or a child that is written and dumped before a
\* child that is read; no readRows is running
InitCascade ==
  /\ mem = EmptyMem
  /\ last = Called("init", TRUE)
  /\ ios \in MultiIos
              \cup {<<IoMultiIo(2, FALSE, TRUE, TRUE),
                      IoMultiIo(1, TRUE, FALSE, FALSE)>>}
  /\ mems = [i \in DOMAIN ios |-> _init(EmptyMem)]
  /\ ioOpen = [i \in DOMAIN ios |-> TRUE]
  /\ isOpen = TRUE
  /\ call = [request |-> <<>>, readIssued |-> <<>>, readSettled |-> <<>>,
             writeIssued |-> <<>>, writeSettled |-> <<>>,
             acc |-> [rows |-> <<>>, errors |-> <<>>, tableExistsAny |-> FALSE],
             returned |-> TRUE]
  /\ writes = NoWrites
  /\ NoPeer

\* readRows that issues the reads of all readable children at once
ReadRowsStartsAll(table, where) ==
  /\ call.returned
  /\ call' = [request |-> <<table, where>>,
              readIssued |-> readables(Self), readSettled |-> <<>>,
              writeIssued |-> <<>>, writeSettled |-> <<>>,
              acc |-> [rows |-> <<>>, errors |-> <<>>, tableExistsAny |-> FALSE],
              returned |-> FALSE]
  /\ UNCHANGED <<mem, last, ios, mems, ioOpen, isOpen, writes, socket,
                 peerIsOpen, bridge>>

\* IoMulti.readRows up to its first await: readable.readRows(request) of
\* the first of this.readables is issued
ReadRowsStarts(table, where) ==
  /\ call.returned
  /\ IF readables(Self) = <<>>
     THEN /\ last' = Called("readRows", FALSE)
          /\ UNCHANGED call
     ELSE /\ call' = [request |-> <<table, where>>,
                      readIssued |-> <<readables(Self)[1]>>,
                      readSettled |-> <<>>,
                      writeIssued |-> <<>>, writeSettled |-> <<>>,
                      acc |-> [rows |-> <<>>, errors |-> <<>>,
                               tableExistsAny |-> FALSE],
                      returned |-> FALSE]
          /\ UNCHANGED last
  /\ UNCHANGED <<mem, ios, mems, ioOpen, isOpen, writes, socket, peerIsOpen,
                 bridge>>

\* the awaited readRows of a child settles: its rows are set into the Map
\* or its error is collected; the loop goes on to issue the read of the next
\* readable; after the last one readRows throws when no child has read the
\* table, and else issues the write-back to the first of this.writables
ChildReadSettles ==
  /\ ~call.returned
  /\ Len(call.readSettled) < Len(call.readIssued)
  /\ LET i == call.readIssued[Len(call.readSettled) + 1]
         r == _readRows(mems[i], call.request[1], call.request[2])
         acc == IF r.ok
                THEN [rows |-> MapSetAll(call.acc.rows, r.rows),
                      errors |-> call.acc.errors, tableExistsAny |-> TRUE]
                ELSE [call.acc EXCEPT !.errors = Append(@, r.err)]
         settled == Append(call.readSettled, i)
         rs == readables(Self)
         ws == writables(Self)
     IN IF Len(settled) < Len(rs)
        THEN /\ call' = [call EXCEPT !.acc = acc, !.readSettled = settled,
                                     !.readIssued = Append(@, rs[Len(settled) + 1])]
             /\ UNCHANGED last
        ELSE IF ~acc.tableExistsAny \/ ws = <<>>
        THEN /\ call' = [call EXCEPT !.acc = acc, !.readSettled = settled,
                                     !.returned = TRUE]
             /\ last' = Called("readRows", acc.tableExistsAny)
        ELSE /\ call' = [call EXCEPT !.acc = acc, !.readSettled = settled,
                                     !.writeIssued = <<ws[1]>>]
             /\ UNCHANGED last
  /\ UNCHANGED <<mem, ios, mems, ioOpen, isOpen, writes, socket, peerIsOpen,
                 bridge>>

\* a write-back that writes the whole table of the readable children, the
\* rows the request does not ask for included
WriteBackSettlesWholeTable ==
  /\ ~call.returned
  /\ Len(call.writeSettled) < Len(call.writeIssued)
  /\ LET i == call.writeIssued[Len(call.writeSettled) + 1]
         all == ReadReadables(readables(Self), mems, call.request[1], <<>>,
                              [rows |-> <<>>, errors |-> <<>>,
                               tableExistsAny |-> FALSE])
         w == _write(mems[i], [k \in {call.request[1]} |-> all.rows])
         settled == Append(call.writeSettled, i)
         ws == writables(Self)
     IN /\ mems' = [mems EXCEPT ![i] = w.mem]
        /\ IF Len(settled) < Len(ws)
           THEN /\ call' = [call EXCEPT !.writeSettled = settled,
                                        !.writeIssued = Append(@, ws[Len(settled) + 1])]
                /\ UNCHANGED last
           ELSE /\ call' = [call EXCEPT !.writeSettled = settled,
                                        !.returned = TRUE]
                /\ last' = Called("readRows", TRUE)
  /\ UNCHANGED <<mem, ios, ioOpen, isOpen, writes, socket, peerIsOpen, bridge>>

\* the awaited write of the write-back settles: the child has merged the
\* rows or has thrown, which is caught; the loop goes on to the next of
\* this.writables, and readRows returns after the last
WriteBackSettles ==
  /\ ~call.returned
  /\ Len(call.writeSettled) < Len(call.writeIssued)
  /\ LET i == call.writeIssued[Len(call.writeSettled) + 1]
         w == _write(mems[i], [k \in {call.request[1]} |-> call.acc.rows])
         settled == Append(call.writeSettled, i)
         ws == writables(Self)
     IN /\ mems' = [mems EXCEPT ![i] = w.mem]
        /\ IF Len(settled) < Len(ws)
           THEN /\ call' = [call EXCEPT !.writeSettled = settled,
                                        !.writeIssued = Append(@, ws[Len(settled) + 1])]
                /\ UNCHANGED last
           ELSE /\ call' = [call EXCEPT !.writeSettled = settled,
                                        !.returned = TRUE]
                /\ last' = Called("readRows", TRUE)
  /\ UNCHANGED <<mem, ios, ioOpen, isOpen, writes, socket, peerIsOpen, bridge>>

NextCascade ==
  \/ \E i \in DOMAIN ios, tableCfg \in MultiCfgs :
       ChildCreateOrExtendTable(i, tableCfg)
  \/ \E i \in DOMAIN ios, data \in MultiWrites : ChildWrite(i, data)
  \/ \E request \in MultiReads : ReadRowsStarts(request[1], request[2])
  \/ ChildReadSettles
  \/ WriteBackSettles

SpecCascade == InitCascade /\ [][NextCascade]_vars

\* C33: while IoMulti.readRows runs, the reads issued are the first of the
\* readable children in ascending priority, each issued when the one
\* before it has settled, and a write-back is issued only when the read of
\* every readable child has settled, and only after the write-back before
\* it has settled
C33_ReadsInOrderThenWriteBack ==
  LET rs == readables(Self)
      ws == writables(Self)
  IN /\ Len(call.readIssued) <= Len(rs)
     /\ call.readIssued = SubSeq(rs, 1, Len(call.readIssued))
     /\ \A j, k \in 1..Len(call.readIssued) :
          j < k => ios[call.readIssued[j]].priority
                     <= ios[call.readIssued[k]].priority
     /\ Len(call.readIssued) <= Len(call.readSettled) + 1
     /\ call.readSettled = SubSeq(call.readIssued, 1, Len(call.readSettled))
     /\ call.writeIssued # <<>> => call.readSettled = rs
     /\ Len(call.writeIssued) <= Len(call.writeSettled) + 1
     /\ Len(call.writeIssued) <= Len(ws)
     /\ call.writeIssued = SubSeq(ws, 1, Len(call.writeIssued))

\* the reads of both children have settled, the second child of _ios
\* first, which has the lower priority number, and a write-back is issued
C33_Witness ==
  /\ ~call.returned
  /\ call.readSettled = <<2, 1>>
  /\ call.writeIssued # <<>>
  /\ call.acc.rows # <<>>

\* C34: a write leaves the table tableCfgs as it is, whatever its data, a
\* table config under the key tableCfgs included
C34_WriteLeavesConfigLog ==
  Initialized(mem) =>
    \A data \in WriteInputs \cup DeclaredWriteInputs
                  \cup {[k \in {"tableCfgs"} |-> <<tableCfg>>] :
                          tableCfg \in CfgInputs} :
      _write(mem, data).mem["tableCfgs"] = mem["tableCfgs"]

----------------------------------------------------------------------------
(* SpecBridge: an IoPeerBridge between a socket and an initialized IoMem *)

\* the calls of start() the model follows
MaxStarts == 2

\* new IoPeerBridge(io, socket) on an initialized io: no listener on the
\* socket, _eventHandlers empty. A handler is the number of the closure:
\* every arrow function that start() evaluates is a new one (nextHandler),
\* and 0 is a closure that was never registered.
\* running: start() was called and stop() was not called since
InitBridge ==
  /\ mem = _init(EmptyMem)
  /\ last = Called("init", TRUE)
  /\ NoMulti
  /\ call = NoCall
  /\ writes = NoWrites
  /\ socket = [connected |-> FALSE, listeners |-> <<>>]
  /\ peerIsOpen = FALSE
  /\ bridge = [_eventHandlers |-> <<>>, nextHandler |-> 1, starts |-> 0,
               running |-> FALSE]

\* IoPeerBridge.start: socket.on for connect and disconnect with new arrow
\* functions, then registerEvent for each of the Io methods, which sets the
\* new handler in _eventHandlers (the entry of a start before is replaced)
\* and pushes it on the socket
BridgeStart ==
  /\ bridge.starts < MaxStarts
  /\ LET ioMethods == <<"init", "isReady", "close", "tableExists",
                        "createOrExtendTable", "write", "readRows", "rowCount",
                        "dumpTable", "dump", "contentType", "rawTableCfgs">>
         n == bridge.nextHandler
     IN /\ socket' =
             [socket EXCEPT !.listeners =
                @ \o <<<<"connect", n>>, <<"disconnect", n + 1>>>>
                  \o [i \in 1..Len(ioMethods) |-> <<ioMethods[i], n + 1 + i>>]]
        /\ bridge' =
             [_eventHandlers |->
                [e \in Range(ioMethods) |->
                   n + 1 + CHOOSE i \in 1..Len(ioMethods) : ioMethods[i] = e],
              nextHandler |-> n + 2 + Len(ioMethods),
              starts |-> bridge.starts + 1,
              running |-> TRUE]
  /\ last' = Called("IoPeerBridge.start", TRUE)
  /\ UNCHANGED <<mem, ios, mems, ioOpen, isOpen, call, writes, peerIsOpen>>

\* IoPeerBridge.stop: socket.off for connect and disconnect with new arrow
\* functions (handler 0), socket.off for every entry of _eventHandlers,
\* then clear().
\* off removes the listener that is the function it is given
\* (listeners.indexOf) and nothing when the socket does not hold it
BridgeStop ==
  /\ LET removed == {<<"connect", 0>>, <<"disconnect", 0>>}
                      \cup {<<e, bridge._eventHandlers[e]>> :
                              e \in DOMAIN bridge._eventHandlers}
         Kept(l) == l \notin removed
     IN /\ socket' = [socket EXCEPT !.listeners = SelectSeq(@, Kept)]
        /\ bridge' = [bridge EXCEPT !._eventHandlers = <<>>,
                                    !.running = FALSE]
  /\ last' = Called("IoPeerBridge.stop", TRUE)
  /\ UNCHANGED <<mem, ios, mems, ioOpen, isOpen, call, writes, peerIsOpen>>

\* an event arrives on the socket: every listener the socket holds for it
\* runs, and each handler of registerEvent calls the Io method of the name
\* with the arguments and acknowledges. (createOrExtendTable and write with
\* the same arguments a second time leave the engine as it is.)
SocketEvent(eventName, args) ==
  /\ \E i \in 1..Len(socket.listeners) : socket.listeners[i][1] = eventName
  /\ \E r \in {CASE eventName = "createOrExtendTable" ->
                      _createOrExtendTable(mem, args)
                 [] eventName = "write" -> _write(mem, args)
                 [] OTHER -> _readRows(mem, args[1], args[2])} :
       /\ eventName = "write" => WithinMaxRows(r.mem)
       /\ mem' = IF eventName = "readRows" THEN mem ELSE r.mem
       /\ last' = Called(eventName, r.ok)
  /\ UNCHANGED <<ios, mems, ioOpen, isOpen, call, writes, socket, peerIsOpen,
                 bridge>>

NextBridge ==
  \/ BridgeStart
  \/ BridgeStop
  \/ \E tableCfg \in MultiCfgs : SocketEvent("createOrExtendTable", tableCfg)
  \/ \E data \in MultiWrites : SocketEvent("write", data)
  \/ \E request \in MultiReads : SocketEvent("readRows", request)

SpecBridge == InitBridge /\ [][NextBridge]_vars

\* C35: when IoPeerBridge.stop() has run, the socket holds none of the
\* handlers the bridge has registered, after one start() and after more
\* (so that no event is forwarded to the Io any more)
C35_NoHandlerAfterStop ==
  ~bridge.running => socket.listeners = <<>>

----------------------------------------------------------------------------
(* SpecCreates: two concurrent createOrExtendTable calls on one engine *)

\* an initialized engine, without table "t" or with table "t" of column
\* a: string, on which createOrExtendTable has been called twice, each call
\* being at its first await. call.mem is the store the calls were made on
InitCreates ==
  /\ mem \in {_init(EmptyMem),
              _createOrExtendTable(_init(EmptyMem),
                                   TableCfgOf("t", <<Col("a", "string")>>)).mem}
  /\ last = Called("init", TRUE)
  /\ NoMulti
  /\ call = [mem |-> mem]
  /\ writes \in [{"w1", "w2"} ->
                   [tableCfg : CfgInputs, existingConfig : {NoCfg},
                    pc : {"compatible"}]]
  /\ NoPeer

\* await this._ioTools.throwWhenTableIsNotCompatible(tableCfg) settles, on
\* the config log as it is now: the call is rejected or goes on
CreateChecksCompatible(c) ==
  /\ writes[c].pc = "compatible"
  /\ IF throwWhenTableIsNotCompatible(mem, writes[c].tableCfg) # NoError
     THEN /\ writes' = [writes EXCEPT ![c].pc = "rejected"]
          /\ last' = Called("createOrExtendTable", FALSE)
     ELSE /\ writes' = [writes EXCEPT ![c].pc = "tableCfgOrNull"]
          /\ UNCHANGED last
  /\ UNCHANGED <<mem, ios, mems, ioOpen, isOpen, call, socket, peerIsOpen,
                 bridge>>

\* this._ioTools.tableCfgOrNull(key) reads the config log as it is now;
\* the call awaits the promise
CreateReadsExisting(c) ==
  /\ writes[c].pc = "tableCfgOrNull"
  /\ writes' = [writes EXCEPT
                  ![c].existingConfig = tableCfgOrNull(mem, writes[c].tableCfg.key),
                  ![c].pc = "write"]
  /\ UNCHANGED <<mem, last, ios, mems, ioOpen, isOpen, call, socket,
                 peerIsOpen, bridge>>

\* the rest of IoMem._createOrExtendTable, which has no await: _createTable
\* or _extendTable on the store as it is now, with the existingConfig that
\* was read before
CreateWrites(c) ==
  /\ writes[c].pc = "write"
  /\ mem' = IF writes[c].existingConfig = NoCfg
            THEN _createTable(mem, HshCfg(writes[c].tableCfg),
                              writes[c].tableCfg.key)
            ELSE _extendTable(mem, writes[c].existingConfig,
                              HshCfg(writes[c].tableCfg))
  /\ writes' = [writes EXCEPT ![c].pc = "resolved"]
  /\ last' = Called("createOrExtendTable", TRUE)
  /\ UNCHANGED <<ios, mems, ioOpen, isOpen, call, socket, peerIsOpen, bridge>>

NextCreates ==
  \/ \E c \in {"w1", "w2"} : CreateChecksCompatible(c)
  \/ \E c \in {"w1", "w2"} : CreateReadsExisting(c)
  \/ \E c \in {"w1", "w2"} : CreateWrites(c)

SpecCreates == InitCreates /\ [][NextCreates]_vars

\* C36: the _tableCfg reference of every table is the hash of the current
\* config of its key, the logged config with the most columns
C36_TableCfgIsCurrent ==
  \A k \in DOMAIN mem : mem[k]._tableCfg = tableCfgOrNull(mem, k)._hash

\* C37: when two concurrent createOrExtendTable calls for one table key
\* have settled, the store is the one that the two calls leave when one
\* runs after the other, in one of the two orders; its config log holds no
\* config twice and the table refers to the current config of its key
C37_ConcurrentCreatesAreSequential ==
  (/\ \A c \in {"w1", "w2"} : writes[c].pc \in {"resolved", "rejected"}
   /\ writes["w1"].tableCfg.key = writes["w2"].tableCfg.key)
    => /\ \E c, d \in {"w1", "w2"} :
            /\ c # d
            /\ mem = _createOrExtendTable(
                       _createOrExtendTable(call.mem, writes[c].tableCfg).mem,
                       writes[d].tableCfg).mem
       /\ \A i, j \in 1..Len(mem["tableCfgs"]._data) :
            mem["tableCfgs"]._data[i] = mem["tableCfgs"]._data[j] => i = j
       /\ \A k \in DOMAIN mem : mem[k]._tableCfg = tableCfgOrNull(mem, k)._hash

C39_WriteBackOnlyCopies ==
  [][/\ Len(call'.readSettled) > Len(call.readSettled)
          => /\ mems' = mems
             /\ \A i \in {call'.readSettled[Len(call'.readSettled)]} :
                  \A r \in {_readRows(mems[i], call'.request[1],
                                      call'.request[2])} :
                    /\ ios[i].read
                    /\ Range(call'.acc.rows)
                         \subseteq Range(call.acc.rows)
                                     \cup (IF r.ok THEN Range(r.rows) ELSE {})
     /\ (call.writeIssued # <<>>
         /\ Len(call'.writeSettled) > Len(call.writeSettled))
          => \A w \in {call'.writeSettled[Len(call'.writeSettled)]} :
               \A T \in {call.request[1]} :
                 /\ ios[w].write
                 /\ \A i \in (DOMAIN mems) \ {w} : mems'[i] = mems[i]
                 /\ DOMAIN mems'[w] = DOMAIN mems[w]
                 /\ \A k \in (DOMAIN mems[w]) \ {T} : mems'[w][k] = mems[w][k]
                 /\ T \in DOMAIN mems[w]
                      => /\ mems'[w][T]._tableCfg = mems[w][T]._tableCfg
                         /\ Len(mems[w][T]._data) <= Len(mems'[w][T]._data)
                         /\ \A n \in 1..Len(mems[w][T]._data) :
                              mems'[w][T]._data[n] = mems[w][T]._data[n]
                         /\ Range(mems'[w][T]._data)
                              \subseteq Range(mems[w][T]._data)
                                          \cup Range(call.acc.rows)]_vars

\* readRows with a where clause has returned: its write-back has added the
\* one row the readable children returned to a writable child that held
\* another row, and the other writable child holds that row alone
C39_Witness ==
  /\ last = Called("readRows", TRUE)
  /\ call.returned
  /\ call.request = <<"t", <<<<"a", "s1">>>>>>
  /\ Len(call.acc.rows) = 1
  /\ Len(call.writeSettled) = 2
  /\ \E i, j \in Range(call.writeSettled) :
       /\ tableExists(mems[i], "t") /\ tableExists(mems[j], "t")
       /\ rowCount(mems[i], "t") = 2
       /\ rowCount(mems[j], "t") = 1
       /\ Range(mems[j]["t"]._data) = Range(call.acc.rows)

====
